---- MODULE Spec2Model ----
(***************************************************************************)
(* PostgresSessionService (sessions/postgres_session_service.py) and      *)
(* PostgresMemoryService (memory/postgres_memory_service.py) over the      *)
(* three tables of utils/postgres_db_helper.py, and the connection manager *)
(* PostgresDBHelper of that file.                                          *)
(*                                                                         *)
(* The database is the three tables `sessions`, `events` and               *)
(* `event_content_parts`, each a function from its primary key to a row.   *)
(* A client (a thread or worker process using the service) runs one store  *)
(* operation at a time; an operation advances one database transaction     *)
(* per step.  Strings the code processes character by character (session   *)
(* ids, which create_session strips) are sequences of one-character        *)
(* strings.  Time is a logical clock that advances at every                *)
(* datetime.now().                                                         *)
(***************************************************************************)
EXTENDS FiniteSets, Integers, Sequences, TLC

\* sessions             table sessions (PostgresSession): id -> row
\* events               table events (PostgresEvent): id -> row
\* event_content_parts  table event_content_parts
\*                      (PostgresEventContentPart): event_id -> row
\* clock                the time datetime.now() last returned
\* uuids                how many ids uuid.uuid4() has produced
\* pc                   per client, where its call stands: "idle", in
\*                      _save_session before the first commit
\*                      ("save_session"), before the second
\*                      ("insert_events"), or returned/raised ("done")
\* op                   per client, the call and its arguments
\* local                per client, stored_session and the Session handed
\*                      to _save_session (new_session / updated_session)
\* result               per client, what the call returned or raised
\* call                 per client, what its call has done so far: how many
\*                      database sessions it acquired from
\*                      db_helper.get_session(), whether a database
\*                      operation failed, and the Session object the caller
\*                      passed in, as it is now
\* instance             PostgresDBHelper._instance, the cached helper
\* engines              the engines (connection pools) create_engine has
\*                      built in this process, oldest first
\* table_schema         the schema attribute of each of the three Table
\*                      objects (None: the default schema)
\* env                  the environment variables of the process
\* last_ok              history: the resolved (URL, schema) of the last
\*                      get_instance call that returned an instance
\* pre, prev, log       history, read by the properties only: the tables
\*                      when the call began; the client's last call other
\*                      than get_session; per session, the events appended
\*                      since it was created and whether every append_event
\*                      on it succeeded
VARIABLES sessions, events, event_content_parts, clock, uuids,
          pc, op, local, result, call, pre, prev, log,
          instance, engines, table_schema, env, last_ok

vars == <<sessions, events, event_content_parts, clock, uuids,
          pc, op, local, result, call, pre, prev, log,
          instance, engines, table_schema, env, last_ok>>

\* the state of the connection manager
helper == <<instance, engines, table_schema, env, last_ok>>

(* ------------------------------ bounds --------------------------------- *)

\* datetime.now() is called at most MaxClock times: every create_session
\* and every append_event that reaches its save calls it once
MaxClock == 2

\* create_engine is called at most MaxEngines times
MaxEngines == 3

\* a streamed reply holds at most MaxChunks chunks before its end
MaxChunks == 3

(* ------------------------------ values --------------------------------- *)

Procs == {"p1", "p2"}

NoneVal == [none |-> TRUE]
Some(v) == [some |-> v]

Empty == <<>>
S1 == <<"s", "1">>
S1Padded == <<" ", "s", "1", " ">>
Blank == <<" ">>
G1 == <<"g", "1">>

\* the values str(uuid.uuid4()) yields, in order; never blank, never padded
UuidPool == <<G1>>
Uuid4(k) == UuidPool[k]

EmptyState == {}
KeyValue == {<<"key", "value">>}

\* the texts of parts, one character per element
Py == <<"P", "y">>
Ab == <<"a", "b">>
Cd == <<"c", "d">>

TextPart(s) ==
    [text |-> Some(s), function_call |-> NoneVal, function_response |-> NoneVal]
CallPart(n, a) ==
    [text |-> NoneVal,
     function_call |-> Some([id |-> "fc", name |-> n, args |-> a]),
     function_response |-> NoneVal]

\* the events a caller appends
E1 == [id |-> "e1", author |-> "user", partial |-> FALSE,
       content |-> Some([parts |-> <<TextPart(Py)>>])]
E2 == [id |-> "e2", author |-> "agent", partial |-> FALSE,
       content |-> Some([parts |-> <<CallPart("lookup", {<<"id", 7>>})>>])]
E3 == [id |-> "e3", author |-> "agent", partial |-> FALSE,
       content |-> Some([parts |-> <<TextPart(Ab), TextPart(Cd)>>])]
EventPool == {E1, E2, E3}

\* a second text event, of the agent
E5 == [id |-> "e5", author |-> "agent", partial |-> FALSE,
       content |-> Some([parts |-> <<TextPart(Ab)>>])]

\* a part of none of the three known kinds (inline data, ...)
OtherPart ==
    [text |-> NoneVal, function_call |-> NoneVal, function_response |-> NoneVal]

\* an event with a part of no known kind before its text, and one without
\* content
E6 == [id |-> "e6", author |-> "agent", partial |-> FALSE,
       content |-> Some([parts |-> <<OtherPart, TextPart(Ab)>>])]
E7 == [id |-> "e7", author |-> "agent", partial |-> FALSE,
       content |-> NoneVal]

\* an event whose text holds a double quote and a backslash
QuoteBackslash == <<"a", "\"", "\\">>
E8 == [id |-> "e8", author |-> "user", partial |-> FALSE,
       content |-> Some([parts |-> <<TextPart(QuoteBackslash)>>])]

\* an event whose actions carry a state_delta
E9 == [id |-> "e9", author |-> "agent", partial |-> FALSE,
       content |-> Some([parts |-> <<TextPart(Ab)>>]),
       actions |-> [state_delta |-> {<<"k2", "v2">>}]]

\* a streaming fragment: partial is set
E4 == [id |-> "e4", author |-> "agent", partial |-> TRUE,
       content |-> Some([parts |-> <<TextPart(Ab)>>])]

(* ----------------------------- JSON values ----------------------------- *)

\* A value of a JSONB column carries its Python type: a list, a str (one
\* character per element) or anything else (a dict, a number, null).
JsonList(l) == [list |-> l]
JsonStr(s) == [str |-> s]
JsonOther == [other |-> TRUE]

IsList(v) == "list" \in DOMAIN v
IsStr(v) == "str" \in DOMAIN v

(* ----------------------------- str helpers ----------------------------- *)

\* Python truthiness of a str
Truthy(s) == Len(s) > 0

\* a check of app_name and user_id that lets everything pass
IsEmptyNever(s) == FALSE

\* `not app_name`, `not user_id`: true of None and of the empty string, both
\* written "" here
IsEmpty(s) == s = ""

RECURSIVE LStrip(_)
LStrip(s) ==
    IF Len(s) = 0 THEN s
    ELSE IF Head(s) = " " THEN LStrip(Tail(s)) ELSE s

RECURSIVE RStrip(_)
RStrip(s) ==
    IF Len(s) = 0 THEN s
    ELSE IF s[Len(s)] = " " THEN RStrip(SubSeq(s, 1, Len(s) - 1)) ELSE s

\* str.strip()
Strip(s) == RStrip(LStrip(s))

\* str.lower() and SQL lower(), on the letters in use
LowerChar(c) ==
    CASE c = "P" -> "p"
      [] c = "Y" -> "y"
      [] OTHER -> c

Lower(s) == [i \in 1..Len(s) |-> LowerChar(s[i])]

\* SQL `text LIKE pattern`: % stands for any run of characters, _ for any
\* one character
RECURSIVE Like(_, _)
Like(text, pattern) ==
    IF Len(pattern) = 0 THEN Len(text) = 0
    ELSE IF Head(pattern) = "%"
         THEN \/ Like(text, Tail(pattern))
              \/ Len(text) > 0 /\ Like(Tail(text), pattern)
         ELSE /\ Len(text) > 0
              /\ Head(pattern) = "_" \/ Head(pattern) = Head(text)
              /\ Like(Tail(text), Tail(pattern))

(* ----------------------------- the tables ------------------------------ *)

HasRow(tbl, key) == key \in DOMAIN tbl

PutRow(tbl, key, row) ==
    [k \in DOMAIN tbl \cup {key} |-> IF k = key THEN row ELSE tbl[k]]

DropRows(tbl, keys) == [k \in DOMAIN tbl \ keys |-> tbl[k]]

EmptyTable == [k \in {} |-> NoneVal]

(* ------------------------------ encoding ------------------------------- *)

\* datetime.fromtimestamp(ts): the DateTime column value
FromTimestamp(ts) == [datetime |-> ts]

\* isinstance(v, datetime)
IsDatetime(v) == DOMAIN v = {"datetime"}

\* datetime.timestamp()
Timestamp(dt) == dt.datetime

\* a dump that keeps the text of a part only
DumpPartTextOnly(part) ==
    [text |-> part.text,
     function_call |-> NoneVal,
     function_response |-> NoneVal]

\* one Part of Event.model_dump(mode='json'): every field, null when unset
DumpPart(part) ==
    [text |-> part.text,
     function_call |-> part.function_call,
     function_response |-> part.function_response]

\* the content of Event.model_dump(mode='json')
DumpContent(e) ==
    IF e.content = NoneVal THEN NoneVal
    ELSE Some([parts |-> [i \in 1..Len(e.content.some.parts) |->
                            DumpPart(e.content.some.parts[i])]])

\* Event.model_dump(mode='json'); the actions are written here only where
\* they are not the default EventActions()
ModelDump(e) ==
    IF "actions" \in DOMAIN e
    THEN [id |-> e.id, author |-> e.author, partial |-> e.partial,
          content |-> DumpContent(e), actions |-> e.actions]
    ELSE [id |-> e.id, author |-> e.author, partial |-> e.partial,
          content |-> DumpContent(e)]

\* what Event.model_validate accepts: an object with the required fields
IsEventJson(j) == {"id", "author", "partial", "content"} \subseteq DOMAIN j

\* types.Part validated from its JSON object
ValidatePart(j) ==
    [text |-> j.text,
     function_call |-> j.function_call,
     function_response |-> j.function_response]

\* the content of a validated Event
ValidateContent(j) ==
    IF j.content = NoneVal THEN NoneVal
    ELSE Some([parts |-> [i \in 1..Len(j.content.some.parts) |->
                            ValidatePart(j.content.some.parts[i])]])

\* Event.model_validate(event_json); only called on IsEventJson objects
ModelValidate(j) ==
    IF "actions" \in DOMAIN j
    THEN [id |-> j.id, author |-> j.author, partial |-> j.partial,
          content |-> ValidateContent(j), actions |-> j.actions]
    ELSE [id |-> j.id, author |-> j.author, partial |-> j.partial,
          content |-> ValidateContent(j)]

\* a JSON object that is no Event: required fields are missing
NotAnEvent == [id |-> "bad"]

\* the event lists of rows written in the legacy (Java) format
LegacyLists ==
    {<<>>, <<ModelDump(E1)>>, <<ModelDump(E8)>>,
     <<ModelDump(E1), NotAnEvent, ModelDump(E8)>>, <<NotAnEvent>>}

\* the characters of a str inside a JSON string literal: the double quote
\* and the backslash are escaped with a backslash
RECURSIVE EscapeJson(_)
EscapeJson(t) ==
    IF Len(t) = 0 THEN <<>>
    ELSE (IF Head(t) \in {"\"", "\\"} THEN <<"\\", Head(t)>>
          ELSE <<Head(t)>>) \o EscapeJson(Tail(t))

\* the JSON text of one object of a list.  Its id stands for every field
\* but the text of its first part, which is written character by character.
DumpsObject(j) ==
    <<"{", "\"", j.id, "\"">> \o
    (IF ~IsEventJson(j) THEN <<>>
     ELSE IF j.content = NoneVal \/ Len(j.content.some.parts) = 0
     THEN <<":", "null">>
     ELSE IF j.content.some.parts[1].text = NoneVal THEN <<":", "null">>
     ELSE <<":", "\"">> \o EscapeJson(j.content.some.parts[1].text.some)
          \o <<"\"">>)
    \o <<"}">>

RECURSIVE DumpsList(_)
DumpsList(list) ==
    IF Len(list) = 0 THEN <<>>
    ELSE IF Len(list) = 1 THEN DumpsObject(Head(list))
    ELSE DumpsObject(Head(list)) \o <<",">> \o DumpsList(Tail(list))

\* the JSON text of a value: of a list of objects, or of the number 7
JsonDumps(v) ==
    IF IsList(v) THEN <<"[">> \o DumpsList(v.list) \o <<"]">>
    ELSE <<"7">>

\* the values json.loads can return here
JsonValues == {JsonList(l) : l \in LegacyLists} \cup {JsonOther}

\* json.loads(raw): the value whose JSON text raw is; JSONDecodeError when
\* it is the text of none
JsonLoads(raw) ==
    IF \E v \in JsonValues : JsonDumps(v) = raw
    THEN [ok |-> TRUE, value |-> CHOOSE v \in JsonValues : JsonDumps(v) = raw]
    ELSE [ok |-> FALSE]

\* str.replace('\\"', '"'): every backslash followed by a double quote
\* becomes the double quote, from left to right
RECURSIVE ReplaceEscapedQuotes(_)
ReplaceEscapedQuotes(raw) ==
    IF Len(raw) < 2 THEN raw
    ELSE IF raw[1] = "\\" /\ raw[2] = "\""
         THEN <<"\"">> \o ReplaceEscapedQuotes(SubSeq(raw, 3, Len(raw)))
         ELSE <<raw[1]>> \o ReplaceEscapedQuotes(Tail(raw))

\* an unwrapping that drops the outer quotes and leaves the escapes
UnwrapOuterOnly(raw) ==
    IF Len(raw) > 0 /\ raw[1] = "\"" /\ raw[Len(raw)] = "\""
    THEN SubSeq(raw, 2, Len(raw) - 1)
    ELSE raw

\* the unwrapping of a string that begins and ends with a double quote:
\* raw[1:-1].replace('\\"', '"')
Unwrap(raw) ==
    IF Len(raw) > 0 /\ raw[1] = "\"" /\ raw[Len(raw)] = "\""
    THEN ReplaceEscapedQuotes(SubSeq(raw, 2, Len(raw) - 1))
    ELSE raw

\* an event loop that gives up at the first element that fails validation
RECURSIVE ValidateUntilInvalid(_)
ValidateUntilInvalid(list) ==
    IF Len(list) = 0 THEN <<>>
    ELSE IF IsEventJson(Head(list))
         THEN <<ModelValidate(Head(list))>> \o ValidateUntilInvalid(Tail(list))
         ELSE <<>>

\* the event loop of _get_session_from_db: elements that fail validation
\* are skipped, the others kept in order
RECURSIVE ValidateAll(_)
ValidateAll(list) ==
    IF Len(list) = 0 THEN <<>>
    ELSE IF IsEventJson(Head(list))
         THEN <<ModelValidate(Head(list))>> \o ValidateAll(Tail(list))
         ELSE ValidateAll(Tail(list))

\* event_data['events'] of a row, decoded: a list is taken as it is, a str
\* is unwrapped and parsed, anything else and any parse failure gives no
\* list; event_data <<>> stands for NULL and for {}
DecodeEvents(event_data) ==
    IF "events" \notin DOMAIN event_data THEN <<>>
    ELSE LET events_raw == event_data.events
             events_list ==
                 IF IsList(events_raw) THEN events_raw
                 ELSE IF IsStr(events_raw)
                 THEN LET parsed == JsonLoads(Unwrap(events_raw.str)) IN
                      IF parsed.ok THEN parsed.value ELSE JsonOther
                 ELSE JsonOther
         IN  IF IsList(events_list) /\ Len(events_list.list) > 0
             THEN ValidateAll(events_list.list)
             ELSE <<>>

(* ------------------------- private store routines ---------------------- *)

\* a lookup that answers a missing row with a fresh empty session
GetSessionOrEmpty(tbl, session_id) ==
    IF ~HasRow(tbl, session_id)
    THEN Some([id |-> session_id, app_name |-> "", user_id |-> "",
               state |-> EmptyState, events |-> <<>>,
               last_update_time |-> clock])
    ELSE LET pg_session == tbl[session_id] IN
         Some([id |-> session_id,
               app_name |-> pg_session.app_name,
               user_id |-> pg_session.user_id,
               state |-> pg_session.state,
               events |-> DecodeEvents(pg_session.event_data),
               last_update_time |-> Timestamp(pg_session.last_update_time)])

\* _get_session_from_db: the row with this id as a Session, or None
GetSessionFromDb(tbl, session_id) ==
    IF ~HasRow(tbl, session_id) THEN NoneVal
    ELSE LET pg_session == tbl[session_id] IN
         Some([id |-> session_id,
               app_name |-> pg_session.app_name,
               user_id |-> pg_session.user_id,
               state |-> pg_session.state,
               events |-> DecodeEvents(pg_session.event_data),
               last_update_time |->
                   IF IsDatetime(pg_session.last_update_time)
                   THEN Timestamp(pg_session.last_update_time)
                   ELSE clock])

\* _copy_session
CopySession(original) ==
    [id |-> original.id,
     app_name |-> original.app_name,
     user_id |-> original.user_id,
     state |-> original.state,
     events |-> original.events,
     last_update_time |-> original.last_update_time]

\* an upsert that adds the newest event to the stored list instead of
\* replacing the list
SaveSessionRowMerge(tbl, session) ==
    LET dumped == [i \in 1..Len(session.events) |->
                      ModelDump(session.events[i])]
    IN  IF ~HasRow(tbl, session.id)
        THEN PutRow(tbl, session.id,
                    [app_name |-> session.app_name,
                     user_id |-> session.user_id,
                     state |-> session.state,
                     last_update_time |->
                         FromTimestamp(session.last_update_time),
                     event_data |-> [events |-> JsonList(dumped)]])
        ELSE [tbl EXCEPT ![session.id] =
                 [@ EXCEPT !.app_name = session.app_name,
                           !.user_id = session.user_id,
                           !.state = session.state,
                           !.last_update_time =
                               FromTimestamp(session.last_update_time),
                           !.event_data =
                               IF Len(dumped) = 0
                               THEN [events |-> JsonList(dumped)]
                               ELSE [events |-> JsonList(
                                       Append(@.events.list,
                                              dumped[Len(dumped)]))]]]

\* an upsert whose update leaves last_update_time as it was
SaveSessionRowStaleTime(tbl, session) ==
    LET event_data ==
            [events |-> JsonList([i \in 1..Len(session.events) |->
                                    ModelDump(session.events[i])])]
    IN  IF ~HasRow(tbl, session.id)
        THEN PutRow(tbl, session.id,
                    [app_name |-> session.app_name,
                     user_id |-> session.user_id,
                     state |-> session.state,
                     last_update_time |->
                         FromTimestamp(session.last_update_time),
                     event_data |-> event_data])
        ELSE [tbl EXCEPT ![session.id] =
                 [@ EXCEPT !.app_name = session.app_name,
                           !.user_id = session.user_id,
                           !.state = session.state,
                           !.event_data = event_data]]

\* an upsert whose update leaves the owner of the row as it was
SaveSessionRowKeepOwner(tbl, session) ==
    LET event_data ==
            [events |-> JsonList([i \in 1..Len(session.events) |->
                                    ModelDump(session.events[i])])]
    IN  IF ~HasRow(tbl, session.id)
        THEN PutRow(tbl, session.id,
                    [app_name |-> session.app_name,
                     user_id |-> session.user_id,
                     state |-> session.state,
                     last_update_time |->
                         FromTimestamp(session.last_update_time),
                     event_data |-> event_data])
        ELSE [tbl EXCEPT ![session.id] =
                 [@ EXCEPT !.state = session.state,
                           !.last_update_time =
                               FromTimestamp(session.last_update_time),
                           !.event_data = event_data]]

\* first half of _save_session: the upsert of the session row
SaveSessionRow(tbl, session) ==
    LET event_data ==
            [events |-> JsonList([i \in 1..Len(session.events) |->
                                    ModelDump(session.events[i])])]
    IN  IF ~HasRow(tbl, session.id)
        THEN PutRow(tbl, session.id,
                    [app_name |-> session.app_name,
                     user_id |-> session.user_id,
                     state |-> session.state,
                     last_update_time |->
                         FromTimestamp(session.last_update_time),
                     event_data |-> event_data])
        ELSE [tbl EXCEPT ![session.id] =
                 [@ EXCEPT !.app_name = session.app_name,
                           !.user_id = session.user_id,
                           !.state = session.state,
                           !.last_update_time =
                               FromTimestamp(session.last_update_time),
                           !.event_data = event_data]]

\* the part_type chain of _insert_events; "" when the part is of no kind
PartType(part) ==
    IF part.text # NoneVal THEN "text"
    ELSE IF part.function_call # NoneVal THEN "functionCall"
    ELSE IF part.function_response # NoneVal THEN "functionResponse"
    ELSE ""

\* the PostgresEventContentPart built for one part
PartRow(session_id, part) ==
    [session_id |-> session_id,
     part_type |-> PartType(part),
     text_content |-> IF PartType(part) = "text" THEN part.text ELSE NoneVal,
     function_call |->
         IF PartType(part) = "functionCall" THEN part.function_call ELSE NoneVal,
     function_response |->
         IF PartType(part) = "functionResponse" THEN part.function_response
         ELSE NoneVal]

\* the content parts of one event, added in order.  event_id alone is the
\* primary key of event_content_parts, so a second row for the same event
\* violates it and the flush fails.
RECURSIVE InsertParts(_, _, _, _)
InsertParts(partTbl, session_id, event_id, parts) ==
    IF Len(parts) = 0 THEN [ok |-> TRUE, parts |-> partTbl]
    ELSE IF PartType(Head(parts)) = ""
         THEN InsertParts(partTbl, session_id, event_id, Tail(parts))
         ELSE IF HasRow(partTbl, event_id)
              THEN [ok |-> FALSE, parts |-> partTbl]
              ELSE InsertParts(PutRow(partTbl, event_id,
                                      PartRow(session_id, Head(parts))),
                               session_id, event_id, Tail(parts))

\* _insert_events and the commit after it: for every event of the session,
\* delete the rows of that event id and insert them again.  The rows are
\* written in one transaction: when any statement fails, none is kept.
RECURSIVE InsertEventsFrom(_, _, _, _, _)
InsertEventsFrom(sessTbl, evTbl, partTbl, session, list) ==
    IF Len(list) = 0 THEN [ok |-> TRUE, events |-> evTbl, parts |-> partTbl]
    ELSE LET event == Head(list)
             \* the deletes; deleting the event row cascades to its parts
             parts1 == DropRows(partTbl, {event.id})
             events1 == DropRows(evTbl, {event.id})
             \* events.session_id references sessions.id
             fk == HasRow(sessTbl, session.id)
             events2 == PutRow(events1, event.id,
                               [session_id |-> session.id,
                                author |-> event.author])
             r == IF event.content # NoneVal
                  THEN InsertParts(parts1, session.id, event.id,
                                   event.content.some.parts)
                  ELSE [ok |-> TRUE, parts |-> parts1]
         IN  IF ~fk \/ ~r.ok
             THEN [ok |-> FALSE, events |-> evTbl, parts |-> partTbl]
             ELSE InsertEventsFrom(sessTbl, events2, r.parts, session,
                                   Tail(list))

InsertEvents(sessTbl, evTbl, partTbl, session) ==
    LET r == InsertEventsFrom(sessTbl, evTbl, partTbl, session, session.events)
    IN  IF r.ok THEN r
        ELSE [ok |-> FALSE, events |-> evTbl, parts |-> partTbl]

(* ------------------------------- inputs -------------------------------- *)

Apps == {"a1", "a2"}
Users == {"u1", "u2"}

\* the (app_name, user_id) pairs sessions are created and deleted under
Owners == {<<"a1", "u1">>, <<"a2", "u2">>}

StateArgs == {NoneVal, Some(KeyValue)}

\* session_id of create_session: omitted, blank, plain, padded
CreateIdArgs == {NoneVal, Some(Blank), Some(S1), Some(S1Padded)}

\* session_id of get_session and delete_session
LookupIds == {S1, S1Padded, Uuid4(1)}

\* the (app_name, user_id) pairs of get_session
Readers == {<<"a1", "u1">>, <<"a2", "u1">>, <<"a1", "u2">>}

\* a Session object in the caller's hands, as create_session returned it
Held(id, app_name, user_id) ==
    [id |-> id, app_name |-> app_name, user_id |-> user_id,
     state |-> EmptyState, events |-> <<>>, last_update_time |-> 0]

\* the Session objects a caller passes to append_event
CallerSessions == {Held(i, "a1", "u1") : i \in {S1, Uuid4(1)}}

\* whether the database fails in a transaction (connection lost, ...)
Faults == BOOLEAN

(* ------------------------------- results ------------------------------- *)

\* an exception and the cause it wraps (raise ... from ex)
Raised(e, cause) == [kind |-> "error", error |-> e, cause |-> cause]
Returned(k, v) == [kind |-> k, value |-> v]
Pending == [kind |-> "pending"]

Snapshot ==
    [sessions |-> sessions, events |-> events,
     event_content_parts |-> event_content_parts]

NoOp == [name |-> "none"]

NoTables ==
    [sessions |-> EmptyTable, events |-> EmptyTable,
     event_content_parts |-> EmptyTable]

NoCall ==
    [acquired |-> 0, failed |-> FALSE, session |-> NoneVal, open |-> 0,
     ended |-> <<>>]

GetSessionExitNoFinally(raised) ==
    [committed |-> ~raised, rolled_back |-> raised, reraised |-> raised,
     closed |-> ~raised]

\* PostgresDBHelper.get_session, from the end of the with body on: commit
\* when the body has not raised, else rollback and raise again; close in
\* both cases
GetSessionExit(raised) ==
    [committed |-> ~raised, rolled_back |-> raised, reraised |-> raised,
     closed |-> TRUE]

\* what the call of client p has done: database sessions acquired so far,
\* whether a database operation failed, the caller's Session object, the
\* database sessions whose with body is still running and, for those whose
\* body has ended in this step, how get_session left them
Call(p, acquired, failed, session, open) ==
    LET exited == call[p].open + (acquired - call[p].acquired) - open IN
    call' = [call EXCEPT ![p] =
                [acquired |-> acquired, failed |-> failed,
                 session |-> session, open |-> open,
                 ended |-> call[p].ended \o
                              [i \in 1..exited |-> GetSessionExit(failed)]]]

\* a call begins: remember the tables as they are
Begin(p, o) ==
    /\ op' = [op EXCEPT ![p] = o]
    /\ pre' = [pre EXCEPT ![p] = Snapshot]

\* a call returns or raises; its frame stays until the caller resumes
Finish(p, r) ==
    /\ result' = [result EXCEPT ![p] = r]
    /\ pc' = [pc EXCEPT ![p] = "done"]

\* the call goes on to _save_session with these locals
GoSave(p, stored_session, session) ==
    /\ local' = [local EXCEPT ![p] =
           [stored_session |-> stored_session, session |-> session]]
    /\ pc' = [pc EXCEPT ![p] = "save_session"]
    /\ result' = [result EXCEPT ![p] = Pending]

\* an append_event on this session did not succeed
Unclean(session_id) ==
    IF HasRow(log, session_id)
    THEN [log EXCEPT ![session_id].clean = FALSE]
    ELSE log

(* ------------------------- the connection manager ---------------------- *)

\* PostgresDBHelper (utils/postgres_db_helper.py).  A URL is its scheme
\* followed by the rest, one element each; blanks are elements " ".
Url1 == <<"postgresql://", "h1">>
Url2 == <<"postgresql+psycopg2://", "h2">>
UrlMysql == <<"mysql://", "h1">>
\* a URL whose port is not a number: create_engine rejects it
UrlBadPort == <<"postgresql://", "h1", ":x">>
\* Url1 between blanks
Url1Padded == <<" ", "postgresql://", "h1", " ">>

SchemaT == <<"t">>
SchemaTPadded == <<" ", "t", " ">>

EnvNames ==
    {"DATABASE_URL", "POSTGRES_URL", "DB_URL", "DBURL", "DBUSER",
     "DBPASSWORD", "DB_SCHEMA", "POSTGRES_SCHEMA"}

EnvUnset == [n \in EnvNames |-> NoneVal]

EnvStandard ==
    [EnvUnset EXCEPT !["POSTGRES_URL"] = Some(Url2),
                     !["DB_URL"] = Some(Url1),
                     !["DB_SCHEMA"] = Some(SchemaTPadded)]

EnvLegacy ==
    [EnvUnset EXCEPT !["DATABASE_URL"] = Some(Empty),
                     !["DBURL"] = Some(<<"h1">>),
                     !["DBUSER"] = Some(<<"u", "@">>),
                     !["DBPASSWORD"] = Some(<<"p", " ">>),
                     !["POSTGRES_SCHEMA"] = Some(Blank)]

\* DB_URL is set to the empty string and the legacy triple is complete
EnvEmptyDbUrl ==
    [EnvUnset EXCEPT !["DB_URL"] = Some(Empty),
                     !["DBURL"] = Some(<<"h1">>),
                     !["DBUSER"] = Some(<<"u">>),
                     !["DBPASSWORD"] = Some(<<"p">>)]

Envs == {EnvUnset, EnvStandard, EnvLegacy, EnvEmptyDbUrl}

\* Python `a or b` on Optional[str]
Or(a, b) == IF a # NoneVal /\ Truthy(a.some) THEN a ELSE b

\* urllib.parse.quote_plus, on the characters in use
QuoteChar(c) ==
    CASE c = "@" -> "%40"
      [] c = " " -> "+"
      [] c = "/" -> "%2F"
      [] c = ":" -> "%3A"
      [] OTHER -> c

QuotePlus(s) == [i \in 1..Len(s) |-> QuoteChar(s[i])]

StartsWithAnything(s, prefixes) == Len(s) > 0

\* str.startswith on the scheme
StartsWith(s, prefixes) == Len(s) > 0 /\ Head(s) \in prefixes

\* get_instance: resolved_schema
ResolvedSchema(e, schema) ==
    IF schema # NoneVal THEN schema
    ELSE LET v == Or(e["DB_SCHEMA"], e["POSTGRES_SCHEMA"]) IN
         IF v # NoneVal /\ Truthy(v.some)
         THEN IF Truthy(Strip(v.some)) THEN Some(Strip(v.some)) ELSE NoneVal
         ELSE v

\* get_instance: resolved_db_url
ResolvedDbUrl(e, db_url) ==
    IF db_url # NoneVal THEN db_url
    ELSE LET standard == Or(e["DATABASE_URL"],
                            Or(e["POSTGRES_URL"], e["DB_URL"]))
             db_url_env == e["DBURL"]
             db_user == e["DBUSER"]
             db_password == e["DBPASSWORD"]
         IN  IF standard # NoneVal THEN standard
             ELSE IF /\ Or(db_url_env, NoneVal) # NoneVal
                     /\ Or(db_user, NoneVal) # NoneVal
                     /\ Or(db_password, NoneVal) # NoneVal
             THEN IF ~StartsWith(db_url_env.some, {"postgresql://"})
                  THEN Some(<<"postgresql://">> \o QuotePlus(db_user.some)
                            \o <<":">> \o QuotePlus(db_password.some)
                            \o <<"@">> \o db_url_env.some)
                  ELSE db_url_env
             ELSE NoneVal

\* create_engine(db_url) raises on a URL it cannot parse
CreateEngineFails(db_url) == \E i \in 1..Len(db_url) : db_url[i] = ":x"

\* the three mapped tables and the schema attribute of each Table object
TableNames == {"sessions", "events", "event_content_parts"}
NoSchema == [t \in TableNames |-> NoneVal]

\* the connection manager as a value
Manager(inst, engs, tschema) ==
    [instance |-> inst, engines |-> engs, table_schema |-> tschema]

\* PostgresDBHelper.__init__ and the assignment of its result to
\* cls._instance: the outcome and the manager afterwards
NewHelper(m, db_url, schema) ==
    IF ~Truthy(db_url) \/ ~Truthy(Strip(db_url))
    THEN [result |-> Raised("ValueError", "url"), manager |-> m]
    ELSE IF ~StartsWith(Strip(db_url),
                        {"postgresql://", "postgresql+psycopg2://"})
    THEN [result |-> Raised("ValueError", "url"), manager |-> m]
    ELSE LET tschema == [t \in TableNames |->
                            IF schema # NoneVal /\ Truthy(schema.some)
                            THEN schema ELSE NoneVal]
         IN  IF CreateEngineFails(Strip(db_url))
             THEN [result |-> Raised("ArgumentError", "engine"),
                   manager |-> Manager(m.instance, m.engines, tschema)]
             ELSE LET made == [db_url |-> Strip(db_url), schema |-> schema,
                               engine |-> Len(m.engines) + 1]
                  IN  [result |-> Returned("instance", made),
                       manager |->
                           Manager(Some(made),
                                   Append(m.engines,
                                          [db_url |-> Strip(db_url),
                                           schema |-> schema]),
                                   tschema)]

\* PostgresDBHelper.get_instance
GetInstanceResult(e, m, db_url, schema) ==
    LET resolved_schema == ResolvedSchema(e, schema)
        resolved_db_url == ResolvedDbUrl(e, db_url)
    IN  IF resolved_db_url = NoneVal
        THEN [result |-> Raised("ValueError", "url"), manager |-> m]
        ELSE IF ~Truthy(Strip(resolved_db_url.some))
        THEN [result |-> Raised("ValueError", "url"), manager |-> m]
        ELSE IF m.instance = NoneVal
        THEN NewHelper(m, resolved_db_url.some, resolved_schema)
        ELSE IF \/ m.instance.some.db_url # resolved_db_url.some
                \/ m.instance.some.schema # resolved_schema
        THEN NewHelper(m, resolved_db_url.some, resolved_schema)
        ELSE [result |-> Returned("instance", m.instance.some), manager |-> m]

\* the manager as PostgresSessionService(db_url=Url1) leaves it
ServiceManager ==
    NewHelper(Manager(NoneVal, <<>>, NoSchema), Url1, NoneVal).manager

(* ------------------------------ the store ------------------------------ *)

\* a store that already holds one session without events, as an earlier
\* create_session(app_name='a1', user_id='u1', session_id='s1') leaves it
StoredBefore ==
    SaveSessionRow(EmptyTable,
                   [id |-> S1, app_name |-> "a1", user_id |-> "u1",
                    state |-> EmptyState, events |-> <<>>,
                    last_update_time |-> 0])

Init ==
    /\ sessions \in {EmptyTable, StoredBefore}
    /\ events = EmptyTable
    /\ event_content_parts = EmptyTable
    /\ clock = 0
    /\ uuids = 0
    /\ pc = [p \in Procs |-> "idle"]
    /\ op = [p \in Procs |-> NoOp]
    /\ local = [p \in Procs |-> NoneVal]
    /\ result = [p \in Procs |-> Pending]
    /\ pre = [p \in Procs |-> NoTables]
    /\ call = [p \in Procs |-> NoCall]
    /\ prev = [p \in Procs |-> NoOp]
    /\ log = [k \in DOMAIN sessions |-> [clean |-> TRUE, events |-> <<>>]]
    /\ instance = ServiceManager.instance
    /\ engines = ServiceManager.engines
    /\ table_schema = ServiceManager.table_schema
    /\ env = EnvUnset
    /\ last_ok = Some([db_url |-> Url1, schema |-> NoneVal])

\* session_id and session_id.strip()
GivenId(session_id) ==
    /\ session_id # NoneVal
    /\ Truthy(session_id.some)
    /\ Truthy(Strip(session_id.some))

\* session_id.strip() if session_id and session_id.strip() else str(uuid4())
ResolvedSessionId(session_id) ==
    IF GivenId(session_id) THEN Strip(session_id.some) ELSE Uuid4(uuids + 1)

\* create_session up to the call of _save_session
CreateSessionOf(p, owners, states, ids) ==
    /\ UNCHANGED helper
    /\ pc[p] = "idle"
    /\ clock < MaxClock
    /\ \E owner \in owners, state \in states, session_id \in ids :
         LET app_name == owner[1]
             user_id == owner[2]
         IN
         /\ GivenId(session_id) \/ uuids < Len(UuidPool)
         /\ Begin(p, [name |-> "create_session", app_name |-> app_name,
                      user_id |-> user_id, state |-> state,
                      session_id |-> session_id])
         /\ Call(p, 0, FALSE, NoneVal, 0)
         /\ IF IsEmpty(app_name) \/ IsEmpty(user_id)
            THEN /\ Finish(p, Raised("ValueError", "argument"))
                 /\ UNCHANGED <<clock, uuids, local>>
            ELSE /\ clock' = clock + 1
                 /\ uuids' = IF GivenId(session_id) THEN uuids ELSE uuids + 1
                 /\ GoSave(p, NoneVal,
                           [id |-> ResolvedSessionId(session_id),
                            app_name |-> app_name,
                            user_id |-> user_id,
                            state |-> IF state = NoneVal THEN EmptyState
                                      ELSE state.some,
                            events |-> <<>>,
                            last_update_time |-> clock + 1])
    /\ UNCHANGED <<sessions, events, event_content_parts, log, prev>>

\* _save_session, first transaction: upsert the session row and commit
SaveSessionOf(p, faults) ==
    /\ UNCHANGED helper
    /\ pc[p] = "save_session"
    /\ \E fault \in faults :
         IF fault
         THEN /\ Finish(p, Raised("RuntimeError", "upsert"))
              /\ Call(p, call[p].acquired + 1, TRUE, call[p].session, 0)
              /\ log' = IF op[p].name = "append_event"
                        THEN Unclean(local[p].session.id) ELSE log
              /\ UNCHANGED sessions
         ELSE /\ sessions' = SaveSessionRow(sessions, local[p].session)
              /\ Call(p, call[p].acquired + 1, FALSE, call[p].session, 1)
              /\ pc' = [pc EXCEPT ![p] = "insert_events"]
              /\ log' = IF op[p].name = "create_session"
                        THEN PutRow(log, local[p].session.id,
                                    [clean |-> TRUE, events |-> <<>>])
                        ELSE log
              /\ UNCHANGED result
    /\ UNCHANGED <<events, event_content_parts, clock, uuids, op, local, pre,
                   prev>>

\* BaseSessionService.append_event, which append_event awaits after the
\* save: what it leaves of the caller's Session object
SuperAppendEvent(session, event) == session

\* _save_session, second transaction: _insert_events and commit; then the
\* caller (create_session or append_event) returns or wraps the error
InsertEventsOf(p, faults) ==
    /\ UNCHANGED helper
    /\ pc[p] = "insert_events"
    /\ \E fault \in faults :
         LET r == IF fault
                  THEN [ok |-> FALSE, events |-> events,
                        parts |-> event_content_parts]
                  ELSE InsertEvents(sessions, events, event_content_parts,
                                    local[p].session)
             sid == local[p].session.id
         IN  /\ events' = r.events
             /\ event_content_parts' = r.parts
             /\ IF ~r.ok
                THEN /\ Finish(p, Raised("RuntimeError", "events"))
                     /\ Call(p, call[p].acquired, TRUE, call[p].session, 0)
                     /\ log' = IF op[p].name = "append_event"
                               THEN Unclean(sid) ELSE log
                ELSE IF op[p].name = "create_session"
                THEN /\ Finish(p, Returned("session",
                                           CopySession(local[p].session)))
                     /\ Call(p, call[p].acquired, FALSE, call[p].session, 0)
                     /\ log' = log
                ELSE /\ Finish(p, Returned("event", op[p].event))
                     /\ Call(p, call[p].acquired, FALSE,
                             Some(SuperAppendEvent(call[p].session.some,
                                                   op[p].event)), 0)
                     /\ log' = IF HasRow(log, sid)
                               THEN [log EXCEPT ![sid].events =
                                         Append(@, op[p].event)]
                               ELSE log
    /\ UNCHANGED <<sessions, clock, uuids, op, local, pre, prev>>

\* an ownership test that needs both fields to differ
BelongsElsewhereBoth(stored_session, app_name, user_id) ==
    stored_session.app_name # app_name /\ stored_session.user_id # user_id

\* the ownership test of get_session
BelongsElsewhere(stored_session, app_name, user_id) ==
    stored_session.app_name # app_name \/ stored_session.user_id # user_id

\* a get_session that answers a failed read with None
GetSessionResultSwallow(tbl, app_name, user_id, session_id, fault) ==
    IF IsEmpty(app_name) \/ IsEmpty(user_id) \/ ~Truthy(session_id)
    THEN Raised("ValueError", "argument")
    ELSE IF fault THEN Returned("none", NoneVal)
    ELSE LET stored_session == GetSessionFromDb(tbl, session_id) IN
         IF stored_session = NoneVal THEN Returned("none", NoneVal)
         ELSE IF BelongsElsewhere(stored_session.some, app_name, user_id)
              THEN Returned("none", NoneVal)
              ELSE Returned("session", CopySession(stored_session.some))

\* get_session: the checks, one read transaction, the ownership test
GetSessionResult(tbl, app_name, user_id, session_id, fault) ==
    IF IsEmpty(app_name) \/ IsEmpty(user_id) \/ ~Truthy(session_id)
    THEN Raised("ValueError", "argument")
    ELSE IF fault THEN Raised("RuntimeError", "read")
    ELSE LET stored_session == GetSessionFromDb(tbl, session_id) IN
         IF stored_session = NoneVal THEN Returned("none", NoneVal)
         ELSE IF BelongsElsewhere(stored_session.some, app_name, user_id)
              THEN Returned("none", NoneVal)
              ELSE Returned("session", CopySession(stored_session.some))

GetSessionOf(p, readers, ids, faults) ==
    /\ UNCHANGED helper
    /\ pc[p] = "idle"
    /\ \E reader \in readers, session_id \in ids, fault \in faults :
         LET r == GetSessionResult(sessions, reader[1], reader[2],
                                   session_id, fault)
             checked == ~(r.kind = "error" /\ r.cause = "argument")
         IN
         /\ Begin(p, [name |-> "get_session", app_name |-> reader[1],
                      user_id |-> reader[2], session_id |-> session_id])
         /\ Finish(p, r)
         /\ Call(p, IF checked THEN 1 ELSE 0, checked /\ fault, NoneVal, 0)
    /\ UNCHANGED <<sessions, events, event_content_parts, clock, uuids, local,
                   log, prev>>

\* a delete that removes the events and parts but not the session row
DeleteRowEventsOnly(db, session_id) ==
    LET gone == {e \in DOMAIN db.events :
                    db.events[e].session_id = session_id}
    IN  [sessions |-> db.sessions,
         events |-> DropRows(db.events, gone),
         event_content_parts |-> DropRows(db.event_content_parts, gone)]

\* a delete of the session row alone, its events and parts left behind
DeleteRowNoCascade(db, session_id) ==
    [sessions |-> DropRows(db.sessions, {session_id}),
     events |-> db.events,
     event_content_parts |-> db.event_content_parts]

\* DELETE FROM sessions WHERE id = :session_id, with its ON DELETE CASCADE
\* to events and from there to event_content_parts
DeleteRow(db, session_id) ==
    LET gone == IF HasRow(db.sessions, session_id)
                THEN {e \in DOMAIN db.events :
                         db.events[e].session_id = session_id}
                ELSE {}
    IN  [sessions |-> DropRows(db.sessions, {session_id}),
         events |-> DropRows(db.events, gone),
         event_content_parts |-> DropRows(db.event_content_parts, gone)]

\* delete_session: the checks and one transaction
DeleteSessionOf(p, owners, ids, faults) ==
    /\ UNCHANGED helper
    /\ pc[p] = "idle"
    /\ \E owner \in owners, session_id \in ids, fault \in faults :
         LET app_name == owner[1]
             user_id == owner[2]
             db == DeleteRow(Snapshot, session_id)
         IN
         /\ Begin(p, [name |-> "delete_session", app_name |-> app_name,
                      user_id |-> user_id, session_id |-> session_id])
         /\ IF IsEmpty(app_name) \/ IsEmpty(user_id) \/ ~Truthy(session_id)
            THEN /\ Finish(p, Raised("ValueError", "argument"))
                 /\ Call(p, 0, FALSE, NoneVal, 0)
                 /\ UNCHANGED <<sessions, events, event_content_parts, log>>
            ELSE IF fault
            THEN /\ Finish(p, Raised("RuntimeError", "delete"))
                 /\ Call(p, 1, TRUE, NoneVal, 0)
                 /\ UNCHANGED <<sessions, events, event_content_parts, log>>
            ELSE /\ Call(p, 1, FALSE, NoneVal, 0)
                 /\ sessions' = db.sessions
                 /\ events' = db.events
                 /\ event_content_parts' = db.event_content_parts
                 /\ log' = DropRows(log, {session_id})
                 /\ Finish(p, Returned("ok", NoneVal))
    /\ UNCHANGED <<clock, uuids, local, prev>>

\* a test of the partial flag that never sees it set
IsPartialNever(event) == FALSE

\* `if event.partial`
IsPartial(event) == event.partial

\* an append that works on the list of the caller's object, in place
AppendInPlace(session, stored_session, event) ==
    [session |-> [session EXCEPT !.events = Append(@, event)],
     updated_events |-> Append(session.events, event)]

\* updated_events = copy.deepcopy(stored_session.events);
\* updated_events.append(event): the new list, and the caller's Session
\* object, which these statements do not touch
AppendToCopy(session, stored_session, event) ==
    [session |-> session,
     updated_events |-> Append(stored_session.events, event)]

\* event.actions.state_delta, empty for the default EventActions()
StateDelta(event) ==
    IF "actions" \in DOMAIN event THEN event.actions.state_delta ELSE {}

\* an append that folds the event's state_delta into the state it saves
UpdatedStateWithDelta(stored_session, event) ==
    stored_session.state \cup StateDelta(event)

\* state=copy.deepcopy(stored_session.state) of the updated session
UpdatedState(stored_session, event) == stored_session.state

\* append_event up to the call of _save_session
AppendEventOf(p, callers, pool, faults) ==
    /\ UNCHANGED helper
    /\ pc[p] = "idle"
    /\ \E session \in callers, event \in pool, fault \in faults :
         LET stored_session == GetSessionFromDb(sessions, session.id) IN
         /\ Begin(p, [name |-> "append_event", session |-> session,
                      event |-> event])
         /\ IF IsPartial(event)
            THEN /\ Finish(p, Returned("event", event))
                 /\ Call(p, 0, FALSE, Some(session), 0)
                 /\ UNCHANGED <<clock, local, log>>
            ELSE IF IsEmpty(session.app_name) \/ IsEmpty(session.user_id)
                    \/ ~Truthy(session.id)
            THEN /\ Finish(p, Raised("ValueError", "argument"))
                 /\ Call(p, 0, FALSE, Some(session), 0)
                 /\ UNCHANGED <<clock, local, log>>
            ELSE IF fault
            THEN /\ Finish(p, Raised("RuntimeError", "read"))
                 /\ Call(p, 1, TRUE, Some(session), 0)
                 /\ log' = Unclean(session.id)
                 /\ UNCHANGED <<clock, local>>
            ELSE IF stored_session = NoneVal
            THEN /\ Finish(p, Raised("RuntimeError", "not_found"))
                 /\ Call(p, 1, FALSE, Some(session), 0)
                 /\ log' = Unclean(session.id)
                 /\ UNCHANGED <<clock, local>>
            ELSE LET heap == AppendToCopy(session, stored_session.some, event)
                 IN
                 /\ clock < MaxClock
                 /\ clock' = clock + 1
                 /\ Call(p, 1, FALSE, Some(heap.session), 0)
                 /\ GoSave(p, stored_session,
                           [id |-> stored_session.some.id,
                            app_name |-> stored_session.some.app_name,
                            user_id |-> stored_session.some.user_id,
                            state |-> UpdatedState(stored_session.some,
                                                   event),
                            events |-> heap.updated_events,
                            last_update_time |-> clock + 1])
                 /\ log' = log
    /\ UNCHANGED <<sessions, events, event_content_parts, uuids, prev>>

\* the caller resumes with the result; `prev` keeps its last call that was
\* not a read (get_session, search_memory), and whether a row with the id
\* that call named was stored when it began
Return(p) ==
    /\ UNCHANGED helper
    /\ pc[p] = "done"
    /\ pc' = [pc EXCEPT ![p] = "idle"]
    /\ prev' = [prev EXCEPT ![p] =
           IF op[p].name \in {"get_session", "search_memory"} THEN @
           ELSE [name |-> op[p].name, op |-> op[p], result |-> result[p],
                 found |->
                     \/ /\ op[p].name = "delete_session"
                        /\ HasRow(pre[p].sessions, op[p].session_id)
                     \/ /\ op[p].name = "add_session_to_memory"
                        /\ HasRow(pre[p].sessions, op[p].session.id)]]
    /\ op' = [op EXCEPT ![p] = NoOp]
    /\ result' = [result EXCEPT ![p] = Pending]
    /\ local' = [local EXCEPT ![p] = NoneVal]
    /\ call' = [call EXCEPT ![p] = NoCall]
    /\ pre' = [pre EXCEPT ![p] = NoTables]
    /\ UNCHANGED <<sessions, events, event_content_parts, clock, uuids, log>>

CreateSession(p) == CreateSessionOf(p, Owners, StateArgs, CreateIdArgs)
GetSession(p) == GetSessionOf(p, Readers, LookupIds, Faults)
DeleteSession(p) == DeleteSessionOf(p, Owners, LookupIds \ {S1Padded}, Faults)
AppendEvent(p) == AppendEventOf(p, CallerSessions, EventPool, Faults)
SaveSession(p) == SaveSessionOf(p, Faults)
InsertEventsStep(p) == InsertEventsOf(p, Faults)

\* one client: calls follow one another
Next ==
    \/ CreateSession("p1")
    \/ GetSession("p1")
    \/ DeleteSession("p1")
    \/ AppendEvent("p1")
    \/ SaveSession("p1")
    \/ InsertEventsStep("p1")
    \/ Return("p1")

Spec == Init /\ [][Next]_vars

(* --------------------------- several clients --------------------------- *)

\* Clients (threads, worker processes) of the same database: the
\* transactions of their calls interleave.  Both work on session 's1' as
\* its owner and the database does not fail.
Owner1 == {<<"a1", "u1">>}
Caller1 == {Held(S1, "a1", "u1")}

ConcurrentAppend(p) == AppendEventOf(p, Caller1, {E1, E2}, {FALSE})
ConcurrentGet(p) == GetSessionOf(p, Owner1, {S1}, {FALSE})
ConcurrentSave(p) == SaveSessionOf(p, {FALSE})
ConcurrentInsert(p) == InsertEventsOf(p, {FALSE})

NextConcurrent ==
    \E p \in Procs :
        \/ ConcurrentAppend(p)
        \/ ConcurrentGet(p)
        \/ ConcurrentSave(p)
        \/ ConcurrentInsert(p)
        \/ Return(p)

SpecConcurrent == Init /\ [][NextConcurrent]_vars

\* Clients that append to session 's1' and delete it; the transactions of
\* an append_event (the read, the upsert, the event rows) interleave with
\* the one transaction of a delete_session.
RaceAppend(p) == AppendEventOf(p, Caller1, {E1, E2}, {FALSE})
RaceDelete(p) == DeleteSessionOf(p, Owner1, {S1}, {FALSE})
RaceSave(p) == SaveSessionOf(p, {FALSE})
RaceInsert(p) == InsertEventsOf(p, {FALSE})

NextRace ==
    \E p \in Procs :
        \/ RaceAppend(p)
        \/ RaceDelete(p)
        \/ RaceSave(p)
        \/ RaceInsert(p)
        \/ Return(p)

SpecRace == Init /\ [][NextRace]_vars

(* --------------------------- the memory service ------------------------ *)

\* PostgresMemoryService over the same tables.

\* a search that leaves out the owner filter
SearchMemoryAnyOwner(db, app_name, user_id, query) ==
    LET pattern == <<"%">> \o Lower(query) \o <<"%">>
        results ==
            {e \in DOMAIN db.events \cap DOMAIN db.event_content_parts :
                /\ HasRow(db.sessions, db.events[e].session_id)
                /\ db.event_content_parts[e].text_content # NoneVal
                /\ Like(Lower(db.event_content_parts[e].text_content.some),
                        pattern)}
        kept == {e \in results :
                    /\ db.event_content_parts[e].part_type = "text"
                    /\ Truthy(db.event_content_parts[e].text_content.some)}
    IN  [e \in kept |->
            [text |-> db.event_content_parts[e].text_content.some,
             author |-> db.events[e].author]]

\* search_memory: the join of events, their content parts and their
\* sessions under query_filter, then the loop that builds one MemoryEntry
\* per row kept.  The database chooses the order of the rows; each entry
\* stands here under the event id of its row.
SearchMemory(db, app_name, user_id, query) ==
    LET pattern == <<"%">> \o Lower(query) \o <<"%">>
        results ==
            {e \in DOMAIN db.events \cap DOMAIN db.event_content_parts :
                /\ HasRow(db.sessions, db.events[e].session_id)
                /\ db.sessions[db.events[e].session_id].app_name = app_name
                /\ db.sessions[db.events[e].session_id].user_id = user_id
                /\ db.event_content_parts[e].text_content # NoneVal
                /\ Like(Lower(db.event_content_parts[e].text_content.some),
                        pattern)}
        kept == {e \in results :
                    /\ db.event_content_parts[e].part_type = "text"
                    /\ Truthy(db.event_content_parts[e].text_content.some)}
    IN  [e \in kept |->
            [text |-> db.event_content_parts[e].text_content.some,
             author |-> db.events[e].author]]

SearchMemoryOf(p, owners, queries, faults) ==
    /\ UNCHANGED helper
    /\ pc[p] = "idle"
    /\ \E owner \in owners, query \in queries, fault \in faults :
         /\ Begin(p, [name |-> "search_memory", app_name |-> owner[1],
                      user_id |-> owner[2], query |-> query])
         /\ Call(p, 1, fault, NoneVal, 0)
         /\ IF fault
            THEN Finish(p, Raised("Exception", "search"))
            ELSE Finish(p, Returned("memories",
                                    SearchMemory(Snapshot, owner[1], owner[2],
                                                 query)))
    /\ UNCHANGED <<sessions, events, event_content_parts, clock, uuids, local,
                   log, prev>>

\* an add that saves the caller's Session object over the stored one
AddSessionToMemoryResave(db, session) ==
    [sessions |-> SaveSessionRow(db.sessions, session),
     events |-> db.events,
     event_content_parts |-> db.event_content_parts]

\* add_session_to_memory: a log line, nothing else
AddSessionToMemory(db, session) == db

AddSessionToMemoryOf(p, callers) ==
    /\ UNCHANGED helper
    /\ pc[p] = "idle"
    /\ \E session \in callers :
         LET db == AddSessionToMemory(Snapshot, session) IN
         /\ Begin(p, [name |-> "add_session_to_memory", session |-> session])
         /\ Call(p, 0, FALSE, Some(session), 0)
         /\ sessions' = db.sessions
         /\ events' = db.events
         /\ event_content_parts' = db.event_content_parts
         /\ Finish(p, Returned("ok", NoneVal))
    /\ UNCHANGED <<clock, uuids, local, log, prev>>

\* the query strings of search_memory
Queries ==
    {<<"p", "y">>, <<"P", "Y">>, <<"y">>, <<"x">>, <<"_">>, <<"%">>}

MemCallers == {Held(S1, "a1", "u1"), Held(G1, "a2", "u2")}

MemCreate(p) == CreateSessionOf(p, Owners, {NoneVal}, {NoneVal, Some(S1)})
MemAppend(p) == AppendEventOf(p, MemCallers, {E1, E2, E5}, {FALSE})
MemSave(p) == SaveSessionOf(p, {FALSE})
MemInsert(p) == InsertEventsOf(p, {FALSE})
MemGet(p) == GetSessionOf(p, Owners, {S1, G1}, {FALSE})
MemSearch(p) == SearchMemoryOf(p, Owners, Queries, Faults)
MemAdd(p) == AddSessionToMemoryOf(p, MemCallers)

NextMemory ==
    \/ MemCreate("p1")
    \/ MemAppend("p1")
    \/ MemSave("p1")
    \/ MemInsert("p1")
    \/ MemGet("p1")
    \/ MemSearch("p1")
    \/ MemAdd("p1")
    \/ Return("p1")

SpecMemory == Init /\ [][NextMemory]_vars

(* ------------------------ two sessions, two owners --------------------- *)

\* A store that holds two sessions without events, 's1' of (a1, u1) and
\* 'g1' of (a2, u2), as two create_session calls leave it.  Their owners
\* append events whose ids they choose; the database does not fail.
StoredTwo ==
    SaveSessionRow(StoredBefore,
                   [id |-> G1, app_name |-> "a2", user_id |-> "u2",
                    state |-> EmptyState, events |-> <<>>,
                    last_update_time |-> 0])

InitShared ==
    /\ sessions = StoredTwo
    /\ events = EmptyTable
    /\ event_content_parts = EmptyTable
    /\ clock = 0
    /\ uuids = 1
    /\ pc = [p \in Procs |-> "idle"]
    /\ op = [p \in Procs |-> NoOp]
    /\ local = [p \in Procs |-> NoneVal]
    /\ result = [p \in Procs |-> Pending]
    /\ pre = [p \in Procs |-> NoTables]
    /\ call = [p \in Procs |-> NoCall]
    /\ prev = [p \in Procs |-> NoOp]
    /\ log = [k \in DOMAIN sessions |-> [clean |-> TRUE, events |-> <<>>]]
    /\ instance = ServiceManager.instance
    /\ engines = ServiceManager.engines
    /\ table_schema = ServiceManager.table_schema
    /\ env = EnvUnset
    /\ last_ok = Some([db_url |-> Url1, schema |-> NoneVal])

SharedAppend(p) == AppendEventOf(p, MemCallers, {E1, E2, E5}, {FALSE})
SharedSave(p) == SaveSessionOf(p, {FALSE})
SharedInsert(p) == InsertEventsOf(p, {FALSE})
SharedSearch(p) == SearchMemoryOf(p, Owners, {<<"p", "y">>, <<"a">>}, {FALSE})

NextShared ==
    \/ SharedAppend("p1")
    \/ SharedSave("p1")
    \/ SharedInsert("p1")
    \/ SharedSearch("p1")
    \/ Return("p1")

SpecShared == InitShared /\ [][NextShared]_vars

(* ------------------------------ the handler ---------------------------- *)

\* ServerHandler.handle_chat (server/server_handler.py) up to the session it
\* hands to the runner.  A request body is its session_id, orderItemUUID,
\* app_name and user_id.

\* session_id, or orderItemUUID when no session_id is given
ChatSessionId(body) ==
    IF body.session_id # NoneVal /\ Truthy(body.session_id.some)
    THEN body.session_id
    ELSE IF body.orderItemUUID # NoneVal /\ Truthy(body.orderItemUUID.some)
         THEN body.orderItemUUID
         ELSE body.session_id

\* initial_state; the request carries none of the three headers
InitialState(body) ==
    IF body.orderItemUUID # NoneVal /\ Truthy(body.orderItemUUID.some)
    THEN {<<"order_item_uuid", body.orderItemUUID.some>>}
    ELSE EmptyState

\* the session handle_chat has after its lookup: None when there is no id,
\* when get_session returns None and when get_session raises
ChatLookup(tbl, body, fault) ==
    LET session_id == ChatSessionId(body) IN
    IF session_id = NoneVal \/ ~Truthy(session_id.some) THEN NoneVal
    ELSE LET r == GetSessionResult(tbl, body.app_name, body.user_id,
                                   session_id.some, fault)
         IN  IF r.kind = "session" THEN Some(r.value) ELSE NoneVal

\* handle_chat: get the session or go on to create_session
HandleChatOf(p, requests, faults) ==
    \E body \in requests, fault \in faults :
        LET session == ChatLookup(sessions, body, fault) IN
        IF session # NoneVal
        THEN /\ UNCHANGED helper
             /\ pc[p] = "idle"
             /\ Begin(p, [name |-> "handle_chat", body |-> body])
             /\ Call(p, 1, FALSE, NoneVal, 0)
             /\ Finish(p, Returned("session", session.some))
             /\ UNCHANGED <<sessions, events, event_content_parts, clock,
                            uuids, local, log, prev>>
        ELSE CreateSessionOf(p, {<<body.app_name, body.user_id>>},
                             {Some(InitialState(body))},
                             {ChatSessionId(body)})

\* the chat requests: the id plain, padded or absent, given as session_id
\* or as orderItemUUID, by the owner of 's1' or by someone else
ChatRequests ==
    [session_id : {NoneVal, Some(S1), Some(S1Padded)},
     orderItemUUID : {NoneVal, Some(S1)},
     app_name : {"a1", "a2"},
     user_id : {"u1"}]

ChatHandle(p) == HandleChatOf(p, ChatRequests, Faults)
ChatAppend(p) == AppendEventOf(p, Caller1, {E1}, {FALSE})
ChatSave(p) == SaveSessionOf(p, {FALSE})
ChatInsert(p) == InsertEventsOf(p, {FALSE})

\* every create_session of this specification is the one of handle_chat
NextChat ==
    \/ ChatHandle("p1")
    \/ ChatAppend("p1")
    \/ ChatSave("p1")
    \/ ChatInsert("p1")
    \/ Return("p1")

SpecChat == Init /\ [][NextChat]_vars

(* --------------------------- the streaming call ------------------------ *)

\* RedbusADG._call_llm_chat_stream (models/redbus_adg.py): the lines of the
\* HTTP reply are read one by one and LlmResponses are yielded.  A line is
\* "[DONE]" or a chunk with a list of choices; texts, function names and
\* argument fragments are sequences of characters.

DoneLine == [done |-> TRUE]
ChunkLine(choices) == [done |-> FALSE, choices |-> choices]

\* a choice: finish_reason, delta, function_call and content, each absent
\* (None) or given
Choice(finish_reason, delta, function_call, content) ==
    [finish_reason |-> finish_reason, delta |-> delta,
     function_call |-> function_call, content |-> content]

\* a delta object: the keys role, function_call and content, each absent or
\* given; the delta {} has none
Delta(role, function_call, content) ==
    [role |-> role, function_call |-> function_call, content |-> content]

\* a function_call object of a delta or choice
Fragment(name, arguments) == [name |-> name, arguments |-> arguments]

\* `if delta:` is false of None and of {}
DeltaTruthy(delta) ==
    /\ delta # NoneVal
    /\ \/ delta.some.role # NoneVal
       \/ delta.some.function_call # NoneVal
       \/ delta.some.content # NoneVal

\* json.loads of the accumulated arguments: an object is "{", its members,
\* "}"; anything else does not parse
JsonLoadsArgs(args_string) ==
    IF /\ Len(args_string) >= 2
       /\ args_string[1] = "{"
       /\ args_string[Len(args_string)] = "}"
       /\ \A k \in 2..(Len(args_string) - 1) : args_string[k] \notin {"{", "}"}
    THEN [ok |-> TRUE,
          value |-> {args_string[k] : k \in 2..(Len(args_string) - 1)}]
    ELSE [ok |-> FALSE, value |-> {}]

\* the LlmResponses the call yields
TextResponse(text, partial) ==
    [partial |-> partial, text |-> Some(text), function_call |-> NoneVal]
FunctionCallResponse(name, args) ==
    [partial |-> FALSE, text |-> NoneVal,
     function_call |-> Some([name |-> name, args |-> args])]

\* the locals of the generator when the reply starts
StreamLocals ==
    [function_call_name_buffer |-> EmptyTable,
     function_call_args_buffer |-> EmptyTable,
     function_call_detected |-> FALSE,
     accumulated_text |-> <<>>,
     next |-> 1]

\* the name and the arguments fragment of a function_call object go to the
\* buffers of choice index i
BufferFragment(st, i, function_call_json) ==
    LET function_name == function_call_json.name
        arguments_fragment == function_call_json.arguments
        args_before == IF HasRow(st.function_call_args_buffer, i)
                       THEN st.function_call_args_buffer[i] ELSE <<>>
    IN  [st EXCEPT
           !.function_call_name_buffer =
               IF function_name # NoneVal /\ Truthy(function_name.some)
               THEN PutRow(@, i, function_name.some) ELSE @,
           !.function_call_args_buffer =
               IF arguments_fragment # NoneVal
                  /\ Truthy(arguments_fragment.some)
               THEN PutRow(@, i, args_before \o arguments_fragment.some)
               ELSE @]

\* `if 'function_call' in delta:` flush the text, buffer the fragment
DeltaFunctionCall(r, i, delta) ==
    IF delta.function_call = NoneVal THEN r
    ELSE LET flush == Truthy(r.st.accumulated_text)
             st1 == IF flush THEN [r.st EXCEPT !.accumulated_text = <<>>]
                    ELSE r.st
         IN  [st |-> BufferFragment(st1, i, delta.function_call.some),
              out |-> IF flush
                      THEN Append(r.out,
                                  TextResponse(r.st.accumulated_text, FALSE))
                      ELSE r.out]

\* `if choice.get('finish_reason') == 'function_call':` as it is reached,
\* inside `if delta:`
FinishInDelta(choice) ==
    DeltaTruthy(choice.delta) /\ choice.finish_reason = Some("function_call")

\* the function call is emitted and the buffers of index i are cleared
EmitFunctionCall(r, i) ==
    LET st == r.st
        named == HasRow(st.function_call_name_buffer, i)
        args_string == IF HasRow(st.function_call_args_buffer, i)
                       THEN st.function_call_args_buffer[i] ELSE <<>>
        parsed == JsonLoadsArgs(args_string)
        function_args == IF Truthy(args_string) /\ parsed.ok
                         THEN parsed.value ELSE {}
    IN  [st |-> [st EXCEPT
                   !.function_call_args_buffer = DropRows(@, {i}),
                   !.function_call_name_buffer = DropRows(@, {i}),
                   !.function_call_detected = TRUE],
         out |-> IF named
                 THEN Append(r.out,
                             FunctionCallResponse(
                                 st.function_call_name_buffer[i],
                                 function_args))
                 ELSE r.out]

\* text = delta.get('content', ''): accumulate and yield a partial response
DeltaText(r, delta) ==
    IF delta.content = NoneVal \/ ~Truthy(delta.content.some) THEN r
    ELSE [st |-> [r.st EXCEPT
                    !.accumulated_text = @ \o delta.content.some],
          out |-> Append(r.out, TextResponse(delta.content.some, TRUE))]

\* one choice of a chunk
ProcessChoice(r, i, choice) ==
    IF DeltaTruthy(choice.delta)
    THEN LET r1 == DeltaFunctionCall(r, i, choice.delta.some)
             r2 == IF FinishInDelta(choice) THEN EmitFunctionCall(r1, i)
                   ELSE r1
         IN  DeltaText(r2, choice.delta.some)
    ELSE IF choice.function_call # NoneVal
    THEN [st |-> [BufferFragment(r.st, i, choice.function_call.some)
                    EXCEPT !.function_call_detected = TRUE],
          out |-> r.out]
    ELSE IF choice.content # NoneVal /\ Truthy(choice.content.some)
    THEN [st |-> r.st,
          out |-> Append(r.out, TextResponse(choice.content.some, FALSE))]
    ELSE r

\* for i, choice in enumerate(choices)
RECURSIVE ProcessChoices(_, _, _)
ProcessChoices(r, choices, i) ==
    IF i >= Len(choices) THEN r
    ELSE ProcessChoices(ProcessChoice(r, i, choices[i + 1]), choices, i + 1)

\* the final response at [DONE]
DoneFlush(st) ==
    IF Truthy(st.accumulated_text) /\ ~st.function_call_detected
    THEN <<TextResponse(st.accumulated_text, FALSE)>> ELSE <<>>

\* one line of the reply: the locals after it, what is yielded, and whether
\* the loop breaks
ProcessLine(st, line) ==
    IF line.done
    THEN [st |-> st, out |-> DoneFlush(st), stop |-> TRUE]
    ELSE LET r == ProcessChoices([st |-> st, out |-> <<>>], line.choices, 0)
         IN  [st |-> r.st, out |-> r.out, stop |-> FALSE]

TextA == <<"a">>
TextB == <<"b">>
NameF == <<"f">>

\* the chunks of a reply, one choice each: two text deltas, the two
\* fragments of the call f({k}), the finish of a function call with the
\* delta absent, empty and non-empty, a function call and a text given on
\* the choice itself
ChunkPool ==
    {ChunkLine(<<Choice(NoneVal, Some(Delta(NoneVal, NoneVal, Some(TextA))),
                        NoneVal, NoneVal)>>),
     ChunkLine(<<Choice(NoneVal, Some(Delta(NoneVal, NoneVal, Some(TextB))),
                        NoneVal, NoneVal)>>),
     ChunkLine(<<Choice(NoneVal,
                        Some(Delta(NoneVal,
                                   Some(Fragment(Some(NameF), Some(<<"{">>))),
                                   NoneVal)),
                        NoneVal, NoneVal)>>),
     ChunkLine(<<Choice(NoneVal,
                        Some(Delta(NoneVal,
                                   Some(Fragment(NoneVal, Some(<<"k", "}">>))),
                                   NoneVal)),
                        NoneVal, NoneVal)>>),
     ChunkLine(<<Choice(Some("function_call"), NoneVal, NoneVal, NoneVal)>>),
     ChunkLine(<<Choice(Some("function_call"),
                        Some(Delta(NoneVal, NoneVal, NoneVal)),
                        NoneVal, NoneVal)>>),
     ChunkLine(<<Choice(Some("function_call"),
                        Some(Delta(Some("assistant"), NoneVal, NoneVal)),
                        NoneVal, NoneVal)>>),
     ChunkLine(<<Choice(NoneVal, NoneVal,
                        Some(Fragment(Some(NameF), Some(<<"{", "}">>))),
                        NoneVal)>>),
     ChunkLine(<<Choice(Some("stop"), NoneVal, NoneVal, Some(<<"c">>))>>)}

\* the replies: up to MaxChunks chunks, then [DONE] or the end of the body
Replies ==
    UNION {{chunks \o tail : chunks \in [1..n -> ChunkPool],
                             tail \in {<<>>, <<DoneLine>>}} :
           n \in 0..MaxChunks}

\* the request is sent; a status outside 2xx ends the call with no response
CallLlmChatStreamOf(p, replies, statuses) ==
    /\ UNCHANGED helper
    /\ pc[p] = "idle"
    /\ \E lines \in replies, status_ok \in statuses :
         /\ Begin(p, [name |-> "_call_llm_chat_stream", lines |-> lines,
                      status_ok |-> status_ok])
         /\ result' = [result EXCEPT ![p] = Returned("responses", <<>>)]
         /\ IF status_ok
            THEN /\ pc' = [pc EXCEPT ![p] = "stream"]
                 /\ local' = [local EXCEPT ![p] = StreamLocals]
            ELSE /\ pc' = [pc EXCEPT ![p] = "done"]
                 /\ UNCHANGED local
    /\ UNCHANGED <<sessions, events, event_content_parts, clock, uuids, call,
                   log, prev>>

\* async for line_bytes in response.aiter_lines(): one line, or the end
StreamLineOf(p) ==
    /\ UNCHANGED helper
    /\ pc[p] = "stream"
    /\ IF local[p].next > Len(op[p].lines)
       THEN /\ pc' = [pc EXCEPT ![p] = "done"]
            /\ UNCHANGED <<local, result>>
       ELSE LET r == ProcessLine(local[p], op[p].lines[local[p].next]) IN
            /\ local' = [local EXCEPT ![p] = [r.st EXCEPT !.next = @ + 1]]
            /\ result' = [result EXCEPT ![p].value = @ \o r.out]
            /\ pc' = [pc EXCEPT ![p] = IF r.stop THEN "done" ELSE "stream"]
    /\ UNCHANGED <<sessions, events, event_content_parts, clock, uuids, op,
                   pre, call, log, prev>>

CallLlmChatStream(p) == CallLlmChatStreamOf(p, Replies, BOOLEAN)
StreamLine(p) == StreamLineOf(p)

NextStream ==
    \/ CallLlmChatStream("p1")
    \/ StreamLine("p1")

SpecStream == Init /\ [][NextStream]_vars

(* ----------------------- calls of the connection manager --------------- *)

\* a process that has built no helper yet, under one of the environments
InitHelper ==
    /\ sessions = EmptyTable
    /\ events = EmptyTable
    /\ event_content_parts = EmptyTable
    /\ clock = 0
    /\ uuids = 0
    /\ pc = [p \in Procs |-> "idle"]
    /\ op = [p \in Procs |-> NoOp]
    /\ local = [p \in Procs |-> NoneVal]
    /\ result = [p \in Procs |-> Pending]
    /\ pre = [p \in Procs |-> NoTables]
    /\ call = [p \in Procs |-> NoCall]
    /\ prev = [p \in Procs |-> NoOp]
    /\ log = EmptyTable
    /\ instance = NoneVal
    /\ engines = <<>>
    /\ table_schema = NoSchema
    /\ env \in Envs
    /\ last_ok = NoneVal

\* the db_url and schema arguments of get_instance
HelperUrls ==
    {NoneVal, Some(Url1), Some(Url2), Some(UrlMysql), Some(UrlBadPort),
     Some(Blank), Some(Url1Padded)}
HelperSchemas == {NoneVal, Some(SchemaT), Some(Empty)}

GetInstanceOf(p, urls, schemas) ==
    /\ pc[p] = "idle"
    /\ \E db_url \in urls, schema \in schemas :
         LET r == GetInstanceResult(env,
                                   Manager(instance, engines, table_schema),
                                   db_url, schema)
         IN
         /\ Len(r.manager.engines) <= MaxEngines
         /\ Begin(p, [name |-> "get_instance", db_url |-> db_url,
                      schema |-> schema])
         /\ Call(p, 0, FALSE, NoneVal, 0)
         /\ Finish(p, r.result)
         /\ local' = [local EXCEPT ![p] =
                [resolved_db_url |-> ResolvedDbUrl(env, db_url),
                 resolved_schema |-> ResolvedSchema(env, schema)]]
         /\ instance' = r.manager.instance
         /\ engines' = r.manager.engines
         /\ table_schema' = r.manager.table_schema
         /\ last_ok' = IF r.result.kind = "instance"
                       THEN Some([db_url |-> ResolvedDbUrl(env, db_url).some,
                                  schema |-> ResolvedSchema(env, schema)])
                       ELSE last_ok
    /\ UNCHANGED <<sessions, events, event_content_parts, clock, uuids, log,
                   prev, env>>

GetInstance(p) == GetInstanceOf(p, HelperUrls, HelperSchemas)

NextHelper ==
    \/ GetInstance("p1")
    \/ Return("p1")

SpecHelper == InitHelper /\ [][NextHelper]_vars

(* ------------------------ saves without failures ----------------------- *)

\* One client and a database that never fails: session 's1' is created and
\* events with no, one and several parts are appended to it, every append
\* saving all events of the session again.
SaveEvents == {E1, E3, E6, E7, E9}

SaveCreate(p) == CreateSessionOf(p, Owner1, StateArgs, {Some(S1)})
SaveAppend(p) == AppendEventOf(p, Caller1, SaveEvents, {FALSE})
SaveRow(p) == SaveSessionOf(p, {FALSE})
SaveRows(p) == InsertEventsOf(p, {FALSE})
SaveGet(p) == GetSessionOf(p, Owner1, {S1}, {FALSE})

NextSave ==
    \/ SaveCreate("p1")
    \/ SaveAppend("p1")
    \/ SaveRow("p1")
    \/ SaveRows("p1")
    \/ SaveGet("p1")
    \/ Return("p1")

SpecSave == Init /\ [][NextSave]_vars

(* ----------------------- rows of the legacy format -------------------- *)

\* the quote-wrapped form of a JSON text: every double quote preceded by a
\* backslash, the whole between two double quotes
RECURSIVE EscapeQuotes(_)
EscapeQuotes(t) ==
    IF Len(t) = 0 THEN <<>>
    ELSE (IF Head(t) = "\"" THEN <<"\\", "\"">> ELSE <<Head(t)>>)
         \o EscapeQuotes(Tail(t))

LegacyWrap(t) == <<"\"">> \o EscapeQuotes(t) \o <<"\"">>

\* the event_data of a row found in the table: the events as a native list,
\* as the JSON text of the list, as that text quote-wrapped, or as something
\* that is no list at all (a number, broken JSON text, the JSON text of a
\* number, a lone double quote, no 'events' key)
LegacyBlobs ==
    {[events |-> JsonList(l)] : l \in LegacyLists}
    \cup {[events |-> JsonStr(JsonDumps(JsonList(l)))] : l \in LegacyLists}
    \cup {[events |-> JsonStr(LegacyWrap(JsonDumps(JsonList(l))))] :
             l \in LegacyLists}
    \cup {[events |-> JsonOther],
          [events |-> JsonStr(<<"[", "{">>)],
          [events |-> JsonStr(JsonDumps(JsonOther))],
          [events |-> JsonStr(<<"\"">>)],
          <<>>}

\* session 's1' of ('a1', 'u1') with this event_data
LegacyRow(event_data) ==
    PutRow(EmptyTable, S1,
           [app_name |-> "a1", user_id |-> "u1", state |-> EmptyState,
            last_update_time |-> FromTimestamp(0),
            event_data |-> event_data])

\* a store whose one session row was written by another implementation
InitDecode ==
    /\ sessions \in {LegacyRow(b) : b \in LegacyBlobs}
    /\ events = EmptyTable
    /\ event_content_parts = EmptyTable
    /\ clock = 0
    /\ uuids = 0
    /\ pc = [p \in Procs |-> "idle"]
    /\ op = [p \in Procs |-> NoOp]
    /\ local = [p \in Procs |-> NoneVal]
    /\ result = [p \in Procs |-> Pending]
    /\ pre = [p \in Procs |-> NoTables]
    /\ call = [p \in Procs |-> NoCall]
    /\ prev = [p \in Procs |-> NoOp]
    /\ log = [k \in DOMAIN sessions |-> [clean |-> TRUE, events |-> <<>>]]
    /\ instance = ServiceManager.instance
    /\ engines = ServiceManager.engines
    /\ table_schema = ServiceManager.table_schema
    /\ env = EnvUnset
    /\ last_ok = Some([db_url |-> Url1, schema |-> NoneVal])

DecodeGet(p) == GetSessionOf(p, Owner1, {S1}, {FALSE})
DecodeAppend(p) == AppendEventOf(p, Caller1, {E5}, {FALSE})
DecodeSave(p) == SaveSessionOf(p, {FALSE})
DecodeInsert(p) == InsertEventsOf(p, {FALSE})

NextDecode ==
    \/ DecodeGet("p1")
    \/ DecodeAppend("p1")
    \/ DecodeSave("p1")
    \/ DecodeInsert("p1")
    \/ Return("p1")

SpecDecode == InitDecode /\ [][NextDecode]_vars

(* ------------------------- calls with bad arguments -------------------- *)

\* One client whose calls also carry empty identifiers, streaming fragments
\* and Session objects of another owner or without a stored row.
ArgOwners == {<<"a1", "u1">>, <<"", "u1">>, <<"a1", "">>}
ArgIds == {S1, Empty}
ArgCallers ==
    {Held(S1, "a1", "u1"), Held(S1, "a2", "u2"), Held(S1, "", "u1"),
     Held(S1, "a1", ""), Held(Empty, "a1", "u1"), Held(G1, "a1", "u1")}
ArgEvents == {E1, E4}

ArgCreate(p) == CreateSessionOf(p, ArgOwners, {NoneVal}, {Some(S1)})
ArgGet(p) == GetSessionOf(p, ArgOwners, ArgIds, Faults)
ArgDelete(p) == DeleteSessionOf(p, ArgOwners, ArgIds, Faults)
ArgAppend(p) == AppendEventOf(p, ArgCallers, ArgEvents, Faults)

NextArgs ==
    \/ ArgCreate("p1")
    \/ ArgGet("p1")
    \/ ArgDelete("p1")
    \/ ArgAppend("p1")
    \/ SaveSession("p1")
    \/ InsertEventsStep("p1")
    \/ Return("p1")

SpecArgs == Init /\ [][NextArgs]_vars

(* ------------------------------ properties ----------------------------- *)

\* the client of Spec
P == "p1"

Done(name) == pc[P] = "done" /\ op[P].name = name

\* the rows of a snapshot that belong to a session id
RowsOf(db, session_id) ==
    [session |-> IF HasRow(db.sessions, session_id)
                 THEN Some(db.sessions[session_id]) ELSE NoneVal,
     events |-> {<<e, db.events[e]>> : e \in
                    {x \in DOMAIN db.events :
                        db.events[x].session_id = session_id}},
     parts |-> {<<e, db.event_content_parts[e]>> : e \in
                   {x \in DOMAIN db.event_content_parts :
                       db.event_content_parts[x].session_id = session_id}}]

NoRows == [session |-> NoneVal, events |-> {}, parts |-> {}]

\* the id under which the caller of the last create_session looks the
\* session up: the one it supplied if that was not blank, else the generated
CreatedKey ==
    IF GivenId(prev[P].op.session_id) THEN prev[P].op.session_id.some
    ELSE prev[P].result.value.id

\* get_session directly after a successful create_session, same keys
GetAfterCreate ==
    /\ Done("get_session")
    /\ result[P].kind # "error"
    /\ prev[P].name = "create_session"
    /\ prev[P].result.kind = "session"
    /\ op[P].app_name = prev[P].op.app_name
    /\ op[P].user_id = prev[P].op.user_id
    /\ op[P].session_id = CreatedKey

\* C1: create_session followed by get_session with the same app_name and
\* user_id and the session id (the supplied one when non-blank, otherwise
\* the generated one) returns a session with identical id, app_name, user_id
\* and state, and a last_update_time not later than the time of the check.
C1_CreateThenGet ==
    GetAfterCreate =>
        /\ result[P].kind = "session"
        /\ result[P].value.id = prev[P].result.value.id
        /\ result[P].value.app_name = prev[P].op.app_name
        /\ result[P].value.user_id = prev[P].op.user_id
        /\ result[P].value.state = prev[P].result.value.state
        /\ result[P].value.state =
               (IF prev[P].op.state = NoneVal THEN EmptyState
                ELSE prev[P].op.state.some)
        /\ result[P].value.last_update_time <= clock

\* get_session names a stored session whose owner differs from the caller's
\* (app_name, user_id)
GetOfOthers ==
    /\ Done("get_session")
    /\ HasRow(pre[P].sessions, op[P].session_id)
    /\ \/ pre[P].sessions[op[P].session_id].app_name # op[P].app_name
       \/ pre[P].sessions[op[P].session_id].user_id # op[P].user_id

\* C2: get_session with the id of a stored session but an app_name or
\* user_id different from the stored row's returns None, never the session
\* (it raises only when the database fails).
C2_WrongOwnerNotFound ==
    GetOfOthers =>
        \/ result[P].kind = "none"
        \/ result[P].kind = "error" /\ result[P].cause = "read"

\* a session of app a1 / user u1 is read as app a2 / user u1: not found
C2_Witness ==
    /\ GetOfOthers
    /\ result[P].kind = "none"
    /\ pre[P].sessions[op[P].session_id].user_id = op[P].user_id

\* C3: after n successful sequential append_event calls e1..en on a session
\* (all appends since it was created succeeded), get_session returns the
\* event list [e1, ..., en], oldest first, each event with the id, author
\* and content parts it was appended with.
C3_AppendedInOrder ==
    (/\ Done("get_session")
     /\ result[P].kind = "session"
     /\ HasRow(log, op[P].session_id)
     /\ log[op[P].session_id].clean)
        => result[P].value.events = log[op[P].session_id].events

\* two appends, the second with a function-call part, read back in order
C3_Witness ==
    /\ Done("get_session")
    /\ result[P].kind = "session"
    /\ HasRow(log, op[P].session_id)
    /\ log[op[P].session_id].clean
    /\ result[P].value.events = <<E1, E2>>

\* append_event with a non-partial event names a session id without a row
AppendToMissing ==
    /\ Done("append_event")
    /\ ~op[P].event.partial
    /\ ~HasRow(pre[P].sessions, op[P].session.id)

\* C4: append_event with a non-partial event on a session id that has no
\* stored row raises an error and leaves no session row, event row or
\* content-part row for that id.
C4_AppendToMissingRaises ==
    AppendToMissing =>
        /\ result[P].kind = "error"
        /\ RowsOf(Snapshot, op[P].session.id) = NoRows

C4_Witness ==
    /\ AppendToMissing
    /\ result[P].kind = "error"
    /\ result[P].cause = "not_found"

\* C5: whenever append_event raises, the stored session's event list as
\* get_session would return it, and the event and content-part rows, are
\* the same as before the call.
C5_FailedAppendLeavesNothing ==
    (Done("append_event") /\ result[P].kind = "error") =>
        /\ GetSessionFromDb(sessions, op[P].session.id) =
               GetSessionFromDb(pre[P].sessions, op[P].session.id)
        /\ events = pre[P].events
        /\ event_content_parts = pre[P].event_content_parts

\* get_session on the id that the last call, a successful delete_session of
\* a stored session, named
GetAfterDelete ==
    /\ Done("get_session")
    /\ prev[P].name = "delete_session"
    /\ prev[P].result.kind = "ok"
    /\ prev[P].found
    /\ op[P].session_id = prev[P].op.session_id

\* delete_session names an id without a stored session
DeleteOfMissing ==
    /\ Done("delete_session")
    /\ ~HasRow(pre[P].sessions, op[P].session_id)

\* C6: after delete_session on a stored session, get_session on the same id
\* returns None; delete_session on an id with no stored session (a second
\* delete included) leaves the store unchanged and raises nothing, the
\* database not failing.
C6_DeleteThenGet ==
    /\ GetAfterDelete =>
           \/ result[P].kind = "none"
           \/ result[P].kind = "error" /\ result[P].cause = "read"
    /\ DeleteOfMissing =>
           /\ Snapshot = pre[P]
           /\ \/ result[P].kind = "ok"
              \/ result[P].kind = "error" /\ result[P].cause = "delete"

C6_Witness ==
    /\ GetAfterDelete
    /\ result[P].kind = "none"

\* delete_session names a stored session under another (app_name, user_id)
DeleteOfOthers ==
    /\ Done("delete_session")
    /\ HasRow(pre[P].sessions, op[P].session_id)
    /\ \/ pre[P].sessions[op[P].session_id].app_name # op[P].app_name
       \/ pre[P].sessions[op[P].session_id].user_id # op[P].user_id

\* C9: delete_session called with an (app_name, user_id) pair that does not
\* match the owner stored on the session row leaves that row and its event
\* and content-part rows unchanged.
C9_DeleteChecksOwner ==
    DeleteOfOthers =>
        RowsOf(Snapshot, op[P].session_id) =
            RowsOf(pre[P], op[P].session_id)

\* create_session names, by a non-blank session_id, a session stored under
\* another (app_name, user_id)
CreateOverOthers ==
    /\ Done("create_session")
    /\ GivenId(op[P].session_id)
    /\ HasRow(pre[P].sessions, Strip(op[P].session_id.some))
    /\ \/ pre[P].sessions[Strip(op[P].session_id.some)].app_name
              # op[P].app_name
       \/ pre[P].sessions[Strip(op[P].session_id.some)].user_id
              # op[P].user_id

\* C10: create_session called with a session_id that is already stored
\* under a different (app_name, user_id) pair does not change that stored
\* session's owner, state or event list.
C10_CreateKeepsOthers ==
    CreateOverOthers =>
        LET id == Strip(op[P].session_id.some)
            before == GetSessionFromDb(pre[P].sessions, id).some
            after == GetSessionFromDb(sessions, id)
        IN  /\ after # NoneVal
            /\ after.some.app_name = before.app_name
            /\ after.some.user_id = before.user_id
            /\ after.some.state = before.state
            /\ after.some.events = before.events

\* client p commits the session row of its append_event in this step
CommitsAppend(p) ==
    /\ pc[p] = "save_session"
    /\ pc'[p] = "insert_events"
    /\ op[p].name = "append_event"

\* C7: two concurrent append_event calls on one session are not
\* coordinated: each full-replaces the row with its own copy of the list it
\* read plus its event, whatever was committed since it read (last writer
\* wins), so both can succeed and leave only one of the two events.
C7_LastWriterWins ==
    [][\A p \in Procs :
          CommitsAppend(p) =>
              GetSessionFromDb(sessions', local[p].session.id).some.events
                  = Append(local[p].stored_session.some.events, op[p].event)
      ]_vars

\* both appends returned their event, they read the same list, and the
\* stored list holds one event only
C7_Witness ==
    /\ \A p \in Procs :
          /\ pc[p] = "done"
          /\ op[p].name = "append_event"
          /\ result[p].kind = "event"
    /\ op["p1"].event # op["p2"].event
    /\ local["p1"].stored_session = local["p2"].stored_session
    /\ Len(GetSessionFromDb(sessions, S1).some.events) =
           Len(local["p1"].stored_session.some.events) + 1

\* client q reads, in this step, the session that client p is appending to;
\* q itself has written nothing, so p's append is the only one under way
ReadsDuringAppend(q, p) ==
    /\ pc[q] = "idle"
    /\ pc'[q] = "done"
    /\ op'[q].name = "get_session"
    /\ prev[q].name = "none"
    /\ pc[p] \in {"save_session", "insert_events"}
    /\ op[p].name = "append_event"
    /\ op'[q].session_id = local[p].session.id

\* C8: a get_session that runs concurrently with an append_event on the
\* same session returns the session as it was before the append (old event
\* list, old last_update_time) or as it is after it (event appended, new
\* last_update_time), never a mixture.
C8_ReadSeesBeforeOrAfter ==
    [][\A q \in Procs : \A p \in Procs \ {q} :
          (ReadsDuringAppend(q, p) /\ result'[q].kind = "session") =>
              \/ result'[q].value = local[p].stored_session.some
              \/ result'[q].value = local[p].session
      ]_vars

\* a read returned the session with the event while the append that wrote
\* it had not finished its save
C8_Witness ==
    \E q \in Procs : \E p \in Procs \ {q} :
        /\ pc[q] = "done"
        /\ op[q].name = "get_session"
        /\ prev[q].name = "none"
        /\ pc[p] = "insert_events"
        /\ op[p].name = "append_event"
        /\ result[q].kind = "session"
        /\ result[q].value = local[p].session
        /\ result[q].value # local[p].stored_session.some

\* append_event with a non-partial event and a Session object whose app_name
\* or user_id is not the one stored on the row with its id
AppendByOthers ==
    /\ Done("append_event")
    /\ ~op[P].event.partial
    /\ HasRow(pre[P].sessions, op[P].session.id)
    /\ \/ pre[P].sessions[op[P].session.id].app_name # op[P].session.app_name
       \/ pre[P].sessions[op[P].session.id].user_id # op[P].session.user_id

\* C11: append_event called with a session object whose app_name or user_id
\* differs from the owner stored on the row with that session id does not
\* add the event to the stored session.
C11_AppendChecksOwner ==
    AppendByOthers =>
        /\ GetSessionFromDb(sessions, op[P].session.id) # NoneVal
        /\ GetSessionFromDb(sessions, op[P].session.id).some.events =
               GetSessionFromDb(pre[P].sessions, op[P].session.id).some.events
        /\ events = pre[P].events
        /\ event_content_parts = pre[P].event_content_parts

\* C12: append_event with an event whose partial flag is set returns that
\* same event, acquires no database session and changes no session row,
\* event row or content-part row, whatever the session argument is.
C12_PartialIsNoOp ==
    (Done("append_event") /\ op[P].event.partial) =>
        /\ result[P] = Returned("event", op[P].event)
        /\ call[P].acquired = 0
        /\ ~call[P].failed
        /\ Snapshot = pre[P]

\* a fragment appended to a session id that has no row
C12_Witness ==
    /\ Done("append_event")
    /\ op[P].event.partial
    /\ result[P].kind = "event"
    /\ Truthy(op[P].session.id)
    /\ ~HasRow(sessions, op[P].session.id)

MissingIdentifier ==
    /\ pc[P] = "done"
    /\ \/ /\ op[P].name = "create_session"
          /\ "" \in {op[P].app_name, op[P].user_id}
       \/ /\ op[P].name \in {"get_session", "delete_session"}
          /\ \/ "" \in {op[P].app_name, op[P].user_id}
             \/ op[P].session_id = Empty
       \/ /\ op[P].name = "append_event"
          /\ ~op[P].event.partial
          /\ \/ "" \in {op[P].session.app_name, op[P].session.user_id}
             \/ op[P].session.id = Empty

\* C14: every store operation called with a missing or empty required
\* identifier raises a validation error before any database session is
\* acquired, leaving the store unchanged.
C14_ValidationFirst ==
    MissingIdentifier =>
        /\ result[P] = Raised("ValueError", "argument")
        /\ call[P].acquired = 0
        /\ Snapshot = pre[P]

\* append_event through a Session object without user_id, its row stored
C14_Witness ==
    /\ MissingIdentifier
    /\ op[P].name = "append_event"
    /\ op[P].session.user_id = ""
    /\ HasRow(sessions, op[P].session.id)
    /\ result[P].kind = "error"

\* C15: a persistence failure during create_session, get_session,
\* delete_session or append_event reaches the caller as a raised storage
\* error that wraps the cause; get_session returns None only when no session
\* with that id is stored for the caller's app_name and user_id, never
\* because the database failed.
C15_StorageErrorsRaised ==
    /\ (pc[P] = "done" /\ call[P].failed) =>
           /\ result[P].kind = "error"
           /\ result[P].error = "RuntimeError"
           /\ result[P].cause \in {"read", "upsert", "events", "delete"}
    /\ (Done("get_session") /\ result[P].kind = "none") =>
           /\ ~call[P].failed
           /\ \/ ~HasRow(pre[P].sessions, op[P].session_id)
              \/ pre[P].sessions[op[P].session_id].app_name # op[P].app_name
              \/ pre[P].sessions[op[P].session_id].user_id # op[P].user_id

\* the read of a stored session by its owner fails in the database
C15_Witness ==
    /\ Done("get_session")
    /\ call[P].failed
    /\ result[P].kind = "error"
    /\ HasRow(sessions, op[P].session_id)
    /\ sessions[op[P].session_id].app_name = op[P].app_name
    /\ sessions[op[P].session_id].user_id = op[P].user_id

\* delete_session returned after deleting a session that was stored
DeletedStored ==
    /\ Done("delete_session")
    /\ result[P].kind = "ok"
    /\ HasRow(pre[P].sessions, op[P].session_id)

\* the event rows of a session in a snapshot
EventRowsOf(db, session_id) ==
    {e \in DOMAIN db.events : db.events[e].session_id = session_id}

\* C16: after delete_session on a stored session returns, no event row
\* whose session_id is that session's id and no content-part row of any
\* such event remains.
C16_DeleteCascades ==
    DeletedStored =>
        /\ EventRowsOf(Snapshot, op[P].session_id) = {}
        /\ \A e \in DOMAIN event_content_parts :
               /\ e \notin EventRowsOf(pre[P], op[P].session_id)
               /\ event_content_parts[e].session_id # op[P].session_id

\* the deleted session had an event row and a content-part row
C16_Witness ==
    /\ DeletedStored
    /\ EventRowsOf(pre[P], op[P].session_id) # {}
    /\ \E e \in EventRowsOf(pre[P], op[P].session_id) :
           HasRow(pre[P].event_content_parts, e)

\* `needle in text`
Contains(text, needle) ==
    \E i \in 0..(Len(text) - Len(needle)) :
        SubSeq(text, i + 1, i + Len(needle)) = needle

\* the content-part rows holding a text, of events in sessions of this owner
TextRowsOf(db, app_name, user_id) ==
    {e \in DOMAIN db.event_content_parts :
        /\ HasRow(db.events, e)
        /\ HasRow(db.sessions, db.events[e].session_id)
        /\ db.sessions[db.events[e].session_id].app_name = app_name
        /\ db.sessions[db.events[e].session_id].user_id = user_id
        /\ db.event_content_parts[e].part_type = "text"}

Searched == Done("search_memory") /\ result[P].kind = "memories"

\* C17: search_memory(app_name, user_id, query) returns an entry for a
\* stored text part of an event in a session owned by (app_name, user_id) if
\* and only if the part's text contains query as a case-insensitive
\* substring, for every query string, '%' and '_' included.
C17_SearchIsSubstring ==
    Searched =>
        \A e \in TextRowsOf(Snapshot, op[P].app_name, op[P].user_id) :
            (e \in DOMAIN result[P].value) <=>
                Contains(Lower(event_content_parts[e].text_content.some),
                         Lower(op[P].query))

\* C18: search_memory never returns an entry taken from a session whose
\* stored app_name or user_id differs from the arguments, and never an entry
\* for a function-call or function-response part.
C18_SearchOwnTextOnly ==
    Searched =>
        \A e \in DOMAIN result[P].value :
            /\ e \in TextRowsOf(Snapshot, op[P].app_name, op[P].user_id)
            /\ event_content_parts[e].function_call = NoneVal
            /\ event_content_parts[e].function_response = NoneVal
            /\ result[P].value[e].text =
                   event_content_parts[e].text_content.some

\* a search that matches every text, made while another owner's session
\* holds a text part and a function-call part, returns nothing
C18_Witness ==
    /\ Searched
    /\ op[P].query = <<"%">>
    /\ DOMAIN result[P].value = {}
    /\ \E e \in DOMAIN event_content_parts :
           event_content_parts[e].part_type = "text"
    /\ \E e \in DOMAIN event_content_parts :
           event_content_parts[e].part_type = "functionCall"

\* get_session by the owner, on the id of the session that the last call,
\* add_session_to_memory, was given while that session was stored
GetAfterAdd ==
    /\ Done("get_session")
    /\ prev[P].name = "add_session_to_memory"
    /\ prev[P].found
    /\ op[P].session_id = prev[P].op.session.id
    /\ HasRow(pre[P].sessions, op[P].session_id)
    /\ pre[P].sessions[op[P].session_id].app_name = op[P].app_name
    /\ pre[P].sessions[op[P].session_id].user_id = op[P].user_id

\* C19: add_session_to_memory(session) changes no session row, event row or
\* content-part row, and a session stored before the call is still returned
\* by get_session after it.
C19_AddIsNoOp ==
    /\ Done("add_session_to_memory") =>
           /\ Snapshot = pre[P]
           /\ call[P].acquired = 0
           /\ result[P].kind = "ok"
    /\ GetAfterAdd =>
           /\ result[P].kind = "session"
           /\ result[P].value =
                  GetSessionFromDb(pre[P].sessions, op[P].session_id).some

\* the session read back after the add holds an event that the Session
\* object given to the add does not
C19_Witness ==
    /\ GetAfterAdd
    /\ result[P].kind = "session"
    /\ Len(result[P].value.events) > Len(prev[P].op.session.events)

\* C20: over any sequence of get_instance calls in one process, at most one
\* connection pool (engine) is ever constructed for each distinct
\* (URL, schema) pair, also when successive requests alternate between two
\* pairs.
C20_OneEnginePerPair ==
    \A i \in 1..Len(engines) : \A j \in 1..Len(engines) :
        (i # j) =>
            <<engines[i].db_url, engines[i].schema>> #
                <<engines[j].db_url, engines[j].schema>>

\* a step in which get_instance returns an instance
GetInstanceReturns ==
    /\ pc[P] = "idle"
    /\ pc'[P] = "done"
    /\ op'[P].name = "get_instance"
    /\ result'[P].kind = "instance"

\* the (URL, schema) pair of a call, its URL without surrounding whitespace
SamePair(a, b) ==
    /\ Strip(a.db_url) = Strip(b.db_url)
    /\ a.schema = b.schema

\* C21: when the resolved (URL, schema) of a get_instance call equals that
\* of the previous successful call, the cached instance is returned and no
\* new pool is constructed; when it differs, a new instance is constructed,
\* cached and returned; the cached instance then carries the configuration
\* of this call.  This holds for every URL that passes validation, padded
\* ones included (URLs are compared without their surrounding whitespace).
C21_CachedUnlessChanged ==
    [][GetInstanceReturns =>
          LET now == [db_url |-> local'[P].resolved_db_url.some,
                      schema |-> local'[P].resolved_schema]
              same == last_ok # NoneVal /\ SamePair(last_ok.some, now)
          IN  /\ same =>
                     /\ engines' = engines
                     /\ instance' = instance
                     /\ result'[P].value = instance.some
              /\ ~same =>
                     /\ Len(engines') = Len(engines) + 1
                     /\ result'[P].value.engine = Len(engines')
              /\ instance' = Some(result'[P].value)
              /\ instance'.some.db_url = Strip(now.db_url)
              /\ instance'.some.schema = now.schema]_vars

\* the two schemes a URL may begin with
Schemes == {"postgresql://", "postgresql+psycopg2://"}

\* the first element of a URL is one of the two schemes
BeginsWithScheme(u) == Len(u) > 0 /\ u[1] \in Schemes

\* the configuration error of get_instance
ConfigurationError == result[P] = Raised("ValueError", "url")

\* C22 as stated: get_instance fails with a configuration error, and
\* returns no instance, when no URL is given and no recognised environment
\* variable yields one, when the resolved URL is empty or blank, or when the
\* resolved URL starts with neither postgresql:// nor postgresql+psycopg2://.
C22_RejectsBadUrl ==
    Done("get_instance") =>
        LET u == local[P].resolved_db_url IN
        (\/ u = NoneVal
         \/ ~Truthy(Strip(u.some))
         \/ ~BeginsWithScheme(u.some)) => ConfigurationError

\* C22 amended: the scheme is looked for after leading and trailing
\* whitespace has been removed from the resolved URL.
C22_RejectsBadUrlStripped ==
    Done("get_instance") =>
        LET u == local[P].resolved_db_url IN
        (\/ u = NoneVal
         \/ ~Truthy(Strip(u.some))
         \/ ~BeginsWithScheme(Strip(u.some))) => ConfigurationError

\* a URL of another scheme has been rejected while an instance is cached
C22_Witness ==
    /\ Done("get_instance")
    /\ op[P].db_url = Some(UrlMysql)
    /\ instance # NoneVal
    /\ ConfigurationError

\* the connection-string variables, highest priority first
StandardNames == <<"DATABASE_URL", "POSTGRES_URL", "DB_URL">>

\* a source is available when it is set to a non-empty value
Available(v) == v # NoneVal /\ v.some # Empty

\* the URL the priority order of the claim selects
FirstAvailable(e, db_url) ==
    IF db_url # NoneVal THEN db_url
    ELSE IF \E i \in 1..3 : Available(e[StandardNames[i]])
    THEN LET i == CHOOSE k \in 1..3 :
                      /\ Available(e[StandardNames[k]])
                      /\ \A j \in 1..(k - 1) : ~Available(e[StandardNames[j]])
         IN  e[StandardNames[i]]
    ELSE IF \A n \in {"DBURL", "DBUSER", "DBPASSWORD"} : Available(e[n])
    THEN Some(<<"postgresql://">> \o QuotePlus(e["DBUSER"].some) \o <<":">>
              \o QuotePlus(e["DBPASSWORD"].some) \o <<"@">>
              \o e["DBURL"].some)
    ELSE NoneVal

\* C23: get_instance resolves the URL as the first available of the explicit
\* argument, DATABASE_URL, POSTGRES_URL, DB_URL and last the legacy
\* DBURL/DBUSER/DBPASSWORD triple assembled as
\* postgresql://<percent-encoded user>:<percent-encoded password>@<DBURL>;
\* a lower-priority source is used only when every higher-priority source
\* is unset.
C23_UrlPriority ==
    Done("get_instance") =>
        local[P].resolved_db_url = FirstAvailable(env, op[P].db_url)

\* the qualifier the tables are to carry for an instance's schema
QualifierOf(schema) ==
    IF schema # NoneVal /\ schema.some # Empty THEN schema ELSE NoneVal

\* C24: after every successful get_instance call the three tables carry the
\* same schema qualifier: the cached instance's schema when it is non-empty,
\* and the default (no qualifier) when it is empty or None, also when an
\* earlier call had set a non-empty schema.
C24_TablesFollowInstance ==
    (Done("get_instance") /\ result[P].kind = "instance") =>
        \A t \in TableNames :
            table_schema[t] = QualifierOf(instance.some.schema)

\* C25: every unit of work obtained from get_session() ends in exactly one
\* of two ways, commit when the body exits normally or rollback followed by
\* re-raising the error when the body raises; in both cases the database
\* session is closed afterwards, so that no acquired session stays open
\* once its scope has exited.
C25_UnitOfWorkEnds ==
    \A p \in Procs :
        /\ call[p].acquired = call[p].open + Len(call[p].ended)
        /\ call[p].open = IF pc[p] = "insert_events" THEN 1 ELSE 0
        /\ \A i \in 1..Len(call[p].ended) :
               LET u == call[p].ended[i] IN
               /\ u.closed
               /\ u.committed # u.rolled_back
               /\ u.reraised = u.rolled_back
               /\ u.rolled_back =>
                      /\ i = Len(call[p].ended)
                      /\ pc[p] = "done"
                      /\ result[p].kind = "error"
                      /\ call[p].failed

\* an append_event whose read was committed and whose save was rolled back
C25_Witness ==
    /\ Done("append_event")
    /\ Len(call[P].ended) = 2
    /\ call[P].ended[1].committed
    /\ call[P].ended[2].rolled_back
    /\ call[P].ended[2].closed

\* no store operation is in flight
Quiescent == \A p \in Procs : pc[p] \in {"idle", "done"}

\* the ids of the event rows of a session
RowIdsOf(session_id) ==
    {e \in DOMAIN events : events[e].session_id = session_id}

\* the ids of the events in the session row's event_data
BlobIdsOf(session_id) ==
    LET blob == sessions[session_id].event_data.events.list IN
    {blob[i].id : i \in 1..Len(blob)}

\* C26: after any sequence of create_session, append_event and
\* delete_session calls, succeeding or failing, whenever no store operation
\* is in flight, for every stored session the set of event ids that have an
\* event row with that session_id equals the set of event ids in the session
\* row's event_data; a failure in the second phase of a save does not leave
\* them in disagreement.
C26_BlobAgreesWithRows ==
    Quiescent =>
        \A session_id \in DOMAIN sessions :
            RowIdsOf(session_id) = BlobIdsOf(session_id)

\* a create_session or append_event that went through _save_session
Saved ==
    /\ pc[P] = "done"
    /\ op[P].name \in {"create_session", "append_event"}
    /\ local[P] # NoneVal

\* the parts of an event that are of a known kind
KnownParts(event) ==
    IF event.content = NoneVal THEN {}
    ELSE {i \in 1..Len(event.content.some.parts) :
             LET part == event.content.some.parts[i] IN
             \/ part.text # NoneVal
             \/ part.function_call # NoneVal
             \/ part.function_response # NoneVal}

\* the number of content-part rows of an event
PartRowsOf(event_id) == IF HasRow(event_content_parts, event_id) THEN 1 ELSE 0

\* C27: a save of a session succeeds and leaves, for every event in the
\* session's list, exactly one event row with that id and exactly one
\* content-part row per part of a known kind, for events with zero, one or
\* several parts; parts of no known kind produce no row, and saving the same
\* events again leaves no duplicate or stale rows for them.
C27_RowsPerEventAndPart ==
    Saved =>
        /\ result[P].kind # "error"
        /\ \A i \in 1..Len(local[P].session.events) :
               LET event == local[P].session.events[i] IN
               /\ HasRow(events, event.id)
               /\ events[event.id].session_id = local[P].session.id
               /\ PartRowsOf(event.id) = Cardinality(KnownParts(event))

\* the upsert of client P has just been committed
Upserted == pc[P] = "insert_events"

\* C28: the upsert leaves exactly one session row for the session id: it
\* inserts the row when none exists, and when one exists it overwrites
\* app_name, user_id, state, last_update_time and event_data with the new
\* values without merging in any old value, event_data holding the entire
\* current event list.
C28_UpsertReplaces ==
    Upserted =>
        LET session == local[P].session IN
        /\ DOMAIN sessions = DOMAIN pre[P].sessions \cup {session.id}
        /\ \A k \in DOMAIN pre[P].sessions :
               (k # session.id) => sessions[k] = pre[P].sessions[k]
        /\ sessions[session.id].app_name = session.app_name
        /\ sessions[session.id].user_id = session.user_id
        /\ sessions[session.id].state = session.state
        /\ IsDatetime(sessions[session.id].last_update_time)
        /\ Timestamp(sessions[session.id].last_update_time) =
               session.last_update_time
        /\ IsList(sessions[session.id].event_data.events)
        /\ sessions[session.id].event_data =
               [events |-> JsonList([i \in 1..Len(session.events) |->
                                       ModelDump(session.events[i])])]

\* a create_session has overwritten a row of another owner that held a
\* state
C28_Witness ==
    /\ Upserted
    /\ op[P].name = "create_session"
    /\ HasRow(pre[P].sessions, local[P].session.id)
    /\ pre[P].sessions[local[P].session.id].user_id # op[P].user_id
    /\ pre[P].sessions[local[P].session.id].state # local[P].session.state

\* get_session of the owner has read a stored row without a database failure
RowRead ==
    /\ Done("get_session")
    /\ HasRow(pre[P].sessions, op[P].session_id)
    /\ pre[P].sessions[op[P].session_id].app_name = op[P].app_name
    /\ pre[P].sessions[op[P].session_id].user_id = op[P].user_id
    /\ ~call[P].failed

\* the encodings of an event list as a str
EncodingsOf(l) ==
    {JsonDumps(JsonList(l)), LegacyWrap(JsonDumps(JsonList(l)))}

\* the list an event_data holds, natively or encoded; None when it holds
\* none
ListIn(event_data) ==
    IF "events" \notin DOMAIN event_data THEN NoneVal
    ELSE LET raw == event_data.events IN
         IF IsList(raw) THEN Some(raw.list)
         ELSE IF IsStr(raw) /\ \E l \in LegacyLists : raw.str \in EncodingsOf(l)
         THEN Some(CHOOSE l \in LegacyLists : raw.str \in EncodingsOf(l))
         ELSE NoneVal

\* the valid elements of a list as Events, in their order
ValidOnes(list) ==
    LET kept == SelectSeq(list, IsEventJson) IN
    [i \in 1..Len(kept) |-> ModelValidate(kept[i])]

\* C29: decoding a session row never raises: when event_data.events is
\* neither a list nor a string that parses into a list (any other shape, or
\* a parse failure), the session is returned with an empty event list; when
\* elements fail Event validation, exactly those are skipped and every valid
\* element is kept, in its original order.
C29_DecodingNeverRaises ==
    RowRead =>
        LET held == ListIn(pre[P].sessions[op[P].session_id].event_data) IN
        /\ result[P].kind = "session"
        /\ (held = NoneVal) => result[P].value.events = <<>>
        /\ (held # NoneVal) => result[P].value.events = ValidOnes(held.some)

\* a native list with an invalid element between two valid ones was read
C29_Witness ==
    /\ RowRead
    /\ pre[P].sessions[S1].event_data =
           [events |-> JsonList(<<ModelDump(E1), NotAnEvent, ModelDump(E8)>>)]
    /\ result[P].value.events = <<E1, E8>>

\* C30: for every event list L, decoding the legacy encodings of L (the
\* JSON text of L stored as a single string, or that text wrapped in one
\* layer of double quotes with its embedded quotes backslash-escaped) yields
\* the same event list as decoding L stored as a native list of objects.
C30_LegacyDecodesAsNative ==
    RowRead =>
        \A l \in LegacyLists :
            LET raw == pre[P].sessions[op[P].session_id].event_data IN
            (\/ raw = [events |-> JsonStr(JsonDumps(JsonList(l)))]
             \/ raw = [events |->
                          JsonStr(LegacyWrap(JsonDumps(JsonList(l))))])
            => /\ result[P].kind = "session"
               /\ result[P].value.events =
                      DecodeEvents([events |-> JsonList(l)])

\* the quote-wrapped text of a list whose event text holds a double quote
\* and a backslash was read
C30_Witness ==
    /\ RowRead
    /\ pre[P].sessions[S1].event_data =
           [events |-> JsonStr(LegacyWrap(JsonDumps(JsonList(
                           <<ModelDump(E1), NotAnEvent, ModelDump(E8)>>))))]
    /\ result[P].value.events = <<E1, E8>>

\* an append_event of client P has returned its event
Appended == Done("append_event") /\ result[P].kind = "event"

\* C31: a successful append_event never removes a previously stored event:
\* the event list held in the session row's blob after the call is the list
\* held before the call followed by the new event, for every previously
\* stored blob, a legacy-encoded one and one with elements the decode
\* routine skips included.
C31_AppendKeepsStored ==
    (Appended /\ ~op[P].event.partial) =>
        LET session_id == op[P].session.id
            before == ListIn(pre[P].sessions[session_id].event_data)
        IN  (before # NoneVal) =>
                /\ HasRow(sessions, session_id)
                /\ sessions[session_id].event_data.events =
                       JsonList(Append(before.some, ModelDump(op[P].event)))

\* C32: append_event leaves the stored session's state, app_name and
\* user_id equal to their values before the call, for every event, one
\* whose actions carry a non-empty state_delta included; only the event list
\* and last_update_time of the stored session change.
C32_AppendKeepsStateAndOwner ==
    (Done("append_event") /\ HasRow(pre[P].sessions, op[P].session.id)) =>
        LET session_id == op[P].session.id IN
        /\ HasRow(sessions, session_id)
        /\ sessions[session_id].state = pre[P].sessions[session_id].state
        /\ sessions[session_id].app_name =
               pre[P].sessions[session_id].app_name
        /\ sessions[session_id].user_id = pre[P].sessions[session_id].user_id

\* an event with a state_delta has been appended to a session that holds a
\* state
C32_Witness ==
    /\ Appended
    /\ StateDelta(op[P].event) # {}
    /\ pre[P].sessions[op[P].session.id].state = KeyValue
    /\ sessions[op[P].session.id].event_data #
           pre[P].sessions[op[P].session.id].event_data
    /\ sessions[op[P].session.id].last_update_time #
           pre[P].sessions[op[P].session.id].last_update_time

\* the call client P made before this one raised a storage error from an
\* append_event on the session of this call
FailedAppendBefore ==
    /\ prev[P].name = "append_event"
    /\ prev[P].result.kind = "error"
    /\ prev[P].result.error = "RuntimeError"
    /\ prev[P].result.cause \in {"read", "upsert", "events"}
    /\ prev[P].op.session.id = op[P].session.id

\* an event that a session without events takes: at most one content part
OnePart(event) ==
    event.content = NoneVal \/ Len(event.content.some.parts) <= 1

\* C33: a failed append_event does not disable the session: after an
\* append_event raised a storage error, a later append_event of a valid
\* non-partial event on the same session, with the database available,
\* succeeds and returns the event.  (Read where the database never fails.)
C33_AppendAfterFailure ==
    (/\ Done("append_event")
     /\ FailedAppendBefore
     /\ ~op[P].event.partial
     /\ OnePart(op[P].event)
     /\ HasRow(pre[P].sessions, op[P].session.id)) =>
        result[P] = Returned("event", op[P].event)

\* the rows of the events table that belong to other sessions than this one
RowsOfOthers(tbl, session_id) ==
    {e \in DOMAIN tbl : tbl[e].session_id # session_id}

\* C34: saving one session never deletes or changes the event rows and
\* content-part rows of a different session, for all caller-supplied event
\* ids, an id that already occurs in the other session included; so what
\* search_memory returns from the other session is unaffected.
C34_SaveKeepsOtherSessions ==
    Appended =>
        LET session_id == op[P].session.id
            others == RowsOfOthers(pre[P].events, session_id)
        IN  /\ \A e \in others :
                  /\ HasRow(events, e)
                  /\ events[e] = pre[P].events[e]
                  /\ HasRow(pre[P].event_content_parts, e) =>
                         /\ HasRow(event_content_parts, e)
                         /\ event_content_parts[e] =
                                pre[P].event_content_parts[e]
            /\ \A owner \in Owners, query \in Queries :
                  (owner # <<op[P].session.app_name, op[P].session.user_id>>)
                  => \A e \in DOMAIN SearchMemory(pre[P], owner[1], owner[2],
                                                  query) :
                        e \in DOMAIN SearchMemory(Snapshot, owner[1],
                                                  owner[2], query)

\* client p has returned from an append_event and client q from a
\* delete_session of the same id
BothReturned(p, q) ==
    /\ pc[p] = "done" /\ op[p].name = "append_event"
    /\ pc[q] = "done" /\ op[q].name = "delete_session"
    /\ result[q] = Returned("ok", NoneVal)
    /\ op[q].session_id = op[p].session.id

\* C35: under any interleaving of a delete_session and an append_event on
\* the same id, once both have returned, and no create_session for that id
\* ran since the delete, no session row with that id exists.
C35_DeletedStaysDeleted ==
    \A p \in Procs, q \in Procs :
        (p # q /\ BothReturned(p, q)) => ~HasRow(sessions, op[q].session_id)

\* a create_session of client P has returned a session whose id was stored
\* under another (app_name, user_id) when the call began
Reused ==
    /\ Done("create_session")
    /\ result[P].kind = "session"
    /\ HasRow(pre[P].sessions, result[P].value.id)
    /\ BelongsElsewhere(pre[P].sessions[result[P].value.id],
                        op[P].app_name, op[P].user_id)

\* C36: after create_session reuses a session id previously stored with
\* events under another (app_name, user_id), search_memory for the new
\* owner returns no entry whose text comes from an event appended under the
\* previous owner.
C36_ReuseHidesOldEvents ==
    Reused =>
        \A query \in Queries :
            \A e \in DOMAIN SearchMemory(Snapshot, op[P].app_name,
                                         op[P].user_id, query) :
                ~(/\ HasRow(pre[P].events, e)
                  /\ pre[P].events[e].session_id = result[P].value.id)

\* a get_instance call of client P raises
GetInstanceRaises ==
    /\ pc[P] = "idle"
    /\ pc'[P] = "done"
    /\ op'[P].name = "get_instance"
    /\ result'[P].kind = "error"

\* C37: a failed get_instance call changes nothing: when get_instance
\* raises (the URL cannot be resolved, validation rejects it, or the engine
\* cannot be created for a URL that passed validation), the cached instance
\* and the schema qualifier of the three tables are as before the call.
C37_FailedCallChangesNothing ==
    [][GetInstanceRaises =>
          /\ instance' = instance
          /\ table_schema' = table_schema]_vars

\* handle_chat of client P has its session: the one it found or the one
\* create_session returned
ChatHasSession ==
    /\ pc[P] = "done"
    /\ op[P].name \in {"handle_chat", "create_session"}
    /\ result[P].kind = "session"

\* C38: handle_chat creates a session only when no session with the
\* requested id is stored: a chat request naming the id of a stored session
\* (by session_id or orderItemUUID) never replaces that session's stored
\* event list or state with a fresh empty session, also when the lookup
\* raises, when the request's user_id or app_name differs from the stored
\* owner and when the id carries surrounding whitespace.
C38_ChatKeepsStoredSession ==
    ChatHasSession =>
        \A session_id \in DOMAIN pre[P].sessions :
            /\ HasRow(sessions, session_id)
            /\ sessions[session_id].event_data =
                   pre[P].sessions[session_id].event_data
            /\ sessions[session_id].state = pre[P].sessions[session_id].state

\* the choice carries finish_reason 'function_call'
FinishAnyDelta(choice) == choice.finish_reason = Some("function_call")

\* client P reads a line that is a chunk whose one choice finishes a
\* function call, without a fragment of its own, after fragments have left
\* a name in the buffer of index 0
FinishAfterFragments ==
    /\ pc[P] = "stream"
    /\ local[P].next <= Len(op[P].lines)
    /\ LET line == op[P].lines[local[P].next] IN
       /\ ~line.done
       /\ FinishAnyDelta(line.choices[1])
       /\ ~(DeltaTruthy(line.choices[1].delta)
             /\ line.choices[1].delta.some.function_call # NoneVal)
       /\ line.choices[1].function_call = NoneVal
    /\ HasRow(local[P].function_call_name_buffer, 0)

\* the function call the buffers of index 0 hold
Buffered ==
    FunctionCallResponse(
        local[P].function_call_name_buffer[0],
        IF HasRow(local[P].function_call_args_buffer, 0)
        THEN JsonLoadsArgs(local[P].function_call_args_buffer[0]).value
        ELSE {})

\* what client P yields in this step
Yielded == SubSeq(result'[P].value, Len(result[P].value) + 1,
                  Len(result'[P].value))

\* C39: in the streaming call, function_call fragments followed by a chunk
\* with finish_reason 'function_call' give exactly one non-partial response
\* carrying a function call with the buffered name and the JSON-parsed
\* concatenated arguments, for every shape of the final chunk's delta
\* (absent, empty, non-empty), and the buffers for that index are cleared.
C39_FinishEmitsFunctionCall ==
    [][FinishAfterFragments =>
          /\ Len(SelectSeq(Yielded, LAMBDA x : x.function_call # NoneVal)) = 1
          /\ \E k \in 1..Len(Yielded) : Yielded[k] = Buffered
          /\ ~HasRow(local'[P].function_call_name_buffer, 0)
          /\ ~HasRow(local'[P].function_call_args_buffer, 0)]_vars

\* the texts of the deltas of a reply, in order
RECURSIVE DeltaTexts(_)
DeltaTexts(lines) ==
    IF Len(lines) = 0 \/ Head(lines).done THEN <<>>
    ELSE LET delta == Head(lines).choices[1].delta IN
         (IF delta # NoneVal /\ delta.some.content # NoneVal
             /\ Truthy(delta.some.content.some)
          THEN <<delta.some.content.some>> ELSE <<>>)
         \o DeltaTexts(Tail(lines))

\* how often the character ch occurs in the texts
RECURSIVE Occurrences(_, _)
Occurrences(ch, texts) ==
    IF Len(texts) = 0 THEN 0
    ELSE Cardinality({k \in 1..Len(Head(texts)) : Head(texts)[k] = ch})
         + Occurrences(ch, Tail(texts))

\* the texts of the partial, or of the non-partial, text responses
TextsOf(responses, partial) ==
    LET kept == SelectSeq(responses,
                          LAMBDA x : x.text # NoneVal /\ x.partial = partial)
    IN  [k \in 1..Len(kept) |-> kept[k].text.some]

\* the call of client P has read a reply that ends with [DONE]
StreamDone ==
    /\ Done("_call_llm_chat_stream")
    /\ op[P].status_ok
    /\ Len(op[P].lines) > 0
    /\ op[P].lines[Len(op[P].lines)].done

\* C40: in the streaming call, for every chunk sequence that ends with
\* [DONE], each text delta is emitted once as a partial response and is
\* included in exactly one non-partial text response (the aggregate flushed
\* before a function call or the final aggregate at [DONE]), whatever the
\* order of text and function-call chunks; no received text is left only in
\* partial responses.
C40_TextReachesAggregate ==
    StreamDone =>
        /\ TextsOf(result[P].value, TRUE) = DeltaTexts(op[P].lines)
        /\ \A ch \in {"a", "b"} :
              Occurrences(ch, TextsOf(result[P].value, FALSE)) =
                  Occurrences(ch, DeltaTexts(op[P].lines))

====
